---- MODULE Spec2Model ----
(***************************************************************************)
(* A model of the bnuuy terminal emulator core:                            *)
(*   - screen_grid/src/lib.rs : ScreenGrid (cells, rows, scrollback,       *)
(*     cursor, DEC margins, deferred-wrap latch);                          *)
(*   - app/src/terminal.rs    : TerminalState and the vte performer;       *)
(*   - app/src/app.rs         : the PTY reader thread and the UI loop.     *)
(* Indices are 0-based as in the source; a sequence element i of the       *)
(* source is element i+1 of the TLA+ sequence.                             *)
(***************************************************************************)
EXTENDS Integers, Sequences, FiniteSets, TLC

VARIABLES
    grid,               \* a stand-alone ScreenGrid (the screen_grid crate on its own)
    term,               \* the TerminalState behind the mutex
    pty_read,           \* number of bytes the reader thread has read; byte i is the number i
    reader_pc,          \* position of the reader thread: "read", "send", "notify", "done"
    data,               \* the reader thread's local Vec<u8>
    channel,            \* the crossbeam channel: batches sent and not yet received
    pending_events,     \* CustomEvent::PtyData events posted and not yet delivered
    pty_data_buffer,    \* App::pty_data_buffer
    fed,                \* all bytes passed to TerminalState::feed, in call order
    redraw_requested,   \* a RedrawRequested event is pending for the window
    more_shaping_work,  \* the shaper's answer in the last frame
    exited,             \* event_loop.exit() has been called
    app_pc,             \* position of the UI loop: "running", "exiting", "join", "finished"
    child_killed,       \* App::exiting has called pty.child.kill()
    reader_handle,      \* App::reader, the JoinHandle of the reader thread: "Some", "None"
    app,                \* App: the mouse and selection fields, the clipboard,
                        \* with Renderer::last_mouse_pos
    renderer,           \* Renderer: the decoration caches
    ui                  \* the UI thread inside an event handler: the handler, the
                        \* steps it has still to take and the guards of the
                        \* terminal mutex it holds

pipe == <<pty_read, reader_pc, data, channel, pending_events, pty_data_buffer,
          fed, redraw_requested, more_shaping_work, exited,
          app_pc, child_killed, reader_handle, app, renderer, ui>>

\* the part of the state App::exiting and App::about_to_wait work on
shutdown == <<app_pc, child_killed, reader_handle>>

vars == <<grid, term, pipe>>

----------------------------------------------------------------------------
(* Bounds of the model *)

MaxCols == 2            \* widest grid explored
MaxRows == 3            \* tallest grid explored
MaxScrollback == 2      \* largest scrollback capacity of the stand-alone grid
MaxCount == 2           \* largest count argument n of an operation
MaxCurY == 4            \* largest cursor row explored
NormalScrollback == 1   \* scrollback capacity of the primary grid (10_000 in the source)
FrameRows == 2          \* most rows of the screens in the rendered-frame specification
MaxBytes == 4           \* bytes the child process writes to the PTY
MaxChunk == 2           \* most bytes one read returns (4096 in the source)
ParseChunkSize == 2     \* PARSE_CHUNK_SIZE (64 KiB in the source)
MaxIter == 2            \* most iterations of the drain loop the 12 ms budget allows
CellPx == 2             \* width and height of a cell in pixels
MaxSgrLen == 3          \* longest SGR parameter list built from SgrValues
MaxCachedRows == 3      \* frames are drawn while the decoration caches hold fewer rows
                        \* (their capacity is 4000 in the source and is never reached)

----------------------------------------------------------------------------
(* usize helpers *)

Min(a, b) == IF a < b THEN a ELSE b
Max(a, b) == IF a > b THEN a ELSE b

\* usize::saturating_sub
saturating_sub(a, b) == IF a > b THEN a - b ELSE 0

\* 0-based element of a sequence
At(s, i) == s[i + 1]

\* Vec::remove / VecDeque::remove of the 0-based index i (i < Len(s))
RemoveAt(s, i) == SubSeq(s, 1, i) \o SubSeq(s, i + 2, Len(s))

\* Vec::insert / VecDeque::insert before the 0-based index i (i <= Len(s))
InsertAt(s, i, e) == SubSeq(s, 1, i) \o <<e>> \o SubSeq(s, i + 1, Len(s))

\* slice::rotate_left(n), 0 <= n <= Len(s)
rotate_left(s, n) == SubSeq(s, n + 1, Len(s)) \o SubSeq(s, 1, n)

\* slice::rotate_right(n), 0 <= n <= Len(s)
rotate_right(s, n) == SubSeq(s, Len(s) - n + 1, Len(s)) \o SubSeq(s, 1, Len(s) - n)

----------------------------------------------------------------------------
(* Cells and rows *)

NoFlags == {}
None == <<>>

\* Config::default().colors
ConfigFg == <<192, 192, 192>>
ConfigBg == <<0, 0, 0>>

\* Cell { fg, bg, ..Default::default() }
\* Option::Some(v), of Option<u32>
Some(v) == <<v>>

BlankCell(fg, bg) == [ch |-> " ", fg |-> fg, bg |-> bg, flags |-> NoFlags, link_id |-> None]

\* a blank row that is not marked dirty
blank_row_clean(cols, fg, bg) ==
    [cells |-> [i \in 1..cols |-> BlankCell(fg, bg)], is_dirty |-> FALSE]

\* blank_row(cols, default_fg, default_bg)
blank_row(cols, fg, bg) ==
    [cells |-> [i \in 1..cols |-> BlankCell(fg, bg)], is_dirty |-> TRUE]

----------------------------------------------------------------------------
(* ScreenGrid *)

scrollback_len(g) == saturating_sub(Len(g.lines), g.rows)

\* self.lines.get(self.scrollback_len() + y) is Some
has_visible_row(g, y) == scrollback_len(g) + y < Len(g.lines)

\* visible_row(y), when it is Some
visible_row(g, y) == At(g.lines, scrollback_len(g) + y)

\* *visible_row_mut(y) = row, a no-op when visible_row_mut(y) is None
set_visible_row(g, y, row) ==
    IF has_visible_row(g, y)
    THEN [g EXCEPT !.lines[scrollback_len(g) + y + 1] = row]
    ELSE g

\* visible_row_mut(y).is_dirty = true, when the row exists
mark_row_dirty(g, y) ==
    IF has_visible_row(g, y)
    THEN [g EXCEPT !.lines[scrollback_len(g) + y + 1].is_dirty = TRUE]
    ELSE g

BlankOf(g) == blank_row(g.cols, g.default_fg, g.default_bg)
BlankCellOf(g) == BlankCell(g.default_fg, g.default_bg)

\* ScreenGrid::resize
resize(g, cols, rows) ==
    IF g.cols = cols /\ g.rows = rows
    THEN g
    ELSE [g EXCEPT !.cols = cols,
                   !.rows = rows,
                   !.lines = [i \in 1..rows |-> blank_row(cols, g.default_fg, g.default_bg)],
                   !.cur_x = 0,
                   !.cur_y = 0,
                   !.scroll_top = 0,
                   !.scroll_bottom = rows - 1,
                   !.deferred_wrap = FALSE,
                   !.full_redraw_needed = TRUE]

\* ScreenGrid::resize, `self.scroll_bottom = rows - 1` in usize: past the early
\* return with rows = 0 the subtraction overflows, a panic in a build with
\* overflow checks (the build without them stores usize::MAX)
resize_overflows(g, cols, rows) == ~(g.cols = cols /\ g.rows = rows) /\ rows = 0

\* ScreenGrid::new: the struct literal, then grid.resize(cols, rows)
new(cols, rows, scrollback, default_fg, default_bg) ==
    resize([rows |-> rows,
            cols |-> cols,
            scroll_top |-> 0,
            scroll_bottom |-> rows - 1,
            cur_x |-> 0,
            cur_y |-> 0,
            lines |-> <<>>,
            scrollback_capacity |-> scrollback,
            full_redraw_needed |-> TRUE,
            default_fg |-> default_fg,
            default_bg |-> default_bg,
            deferred_wrap |-> FALSE],
           cols, rows)

\* ScreenGrid::clear_all_dirty_flags
clear_all_dirty_flags(g) ==
    [g EXCEPT !.full_redraw_needed = FALSE,
              !.lines = [i \in 1..Len(g.lines) |-> [g.lines[i] EXCEPT !.is_dirty = FALSE]]]

\* ScreenGrid::push_scrollback: push_front, then pop_front while too long
RECURSIVE pop_front_while(_, _)
pop_front_while(lines, limit) ==
    IF Len(lines) > limit THEN pop_front_while(Tail(lines), limit) ELSE lines

push_scrollback(g, row) ==
    [g EXCEPT !.lines = pop_front_while(<<row>> \o g.lines, g.rows + g.scrollback_capacity)]

\* the first loop of scroll_up: n times remove the row at
\* scrollback_len() + scroll_top (scrollback_len() is re-read every time)
RECURSIVE scroll_remove(_, _, _)
scroll_remove(g, n, off) ==
    IF n = 0 THEN [g |-> g, off |-> off]
    ELSE LET top_idx == scrollback_len(g) + g.scroll_top IN
         IF top_idx < Len(g.lines)
         THEN scroll_remove([g EXCEPT !.lines = RemoveAt(g.lines, top_idx)], n - 1,
                            IF g.scrollback_capacity > 0
                            THEN Append(off, At(g.lines, top_idx)) ELSE off)
         ELSE scroll_remove(g, n - 1, off)

\* the second loop of scroll_up: n times insert a blank row at
\* min(scrollback_len() + scroll_bottom + 1, lines.len())
RECURSIVE scroll_insert(_, _)
scroll_insert(g, n) ==
    IF n = 0 THEN g
    ELSE LET bottom_idx == scrollback_len(g) + g.scroll_bottom + 1
             clamped_idx == Min(bottom_idx, Len(g.lines))
         IN scroll_insert([g EXCEPT !.lines = InsertAt(g.lines, clamped_idx, BlankOf(g))], n - 1)

\* the third loop of scroll_up: push every removed row
RECURSIVE scroll_push(_, _)
scroll_push(g, off) ==
    IF off = <<>> THEN g ELSE scroll_push(push_scrollback(g, Head(off)), Tail(off))

\* ScreenGrid::scroll_up
scroll_up(g, n0) ==
    LET scrollable_lines_in_region == saturating_sub(g.scroll_bottom, g.scroll_top) + 1
        n == Min(n0, scrollable_lines_in_region)
    IN IF n = 0 THEN g
       ELSE LET r == scroll_remove(g, n, <<>>)
                g2 == scroll_insert(r.g, n)
                g3 == scroll_push(g2, r.off)
            IN [g3 EXCEPT !.full_redraw_needed = TRUE]

\* ScreenGrid::line_feed
line_feed(g) ==
    IF g.deferred_wrap THEN [g EXCEPT !.deferred_wrap = FALSE]
    ELSE IF g.cur_y = g.scroll_bottom THEN scroll_up(g, 1)
    ELSE [g EXCEPT !.cur_y = g.cur_y + 1]

\* ScreenGrid::advance_cursor
advance_cursor(g) ==
    IF g.cur_x + 1 >= g.cols
    THEN [g EXCEPT !.deferred_wrap = TRUE]
    ELSE [g EXCEPT !.cur_x = g.cur_x + 1]

\* ScreenGrid::put_char_ex
put_char_ex(g, ch, fg, bg, flags, link_id) ==
    LET g1 == IF g.deferred_wrap
              THEN [line_feed(g) EXCEPT !.cur_x = 0, !.deferred_wrap = FALSE]
              ELSE g
        x == g1.cur_x
        y == g1.cur_y
        cell == [ch |-> ch, fg |-> fg, bg |-> bg, flags |-> flags, link_id |-> link_id]
        g2 == IF x < g1.cols /\ has_visible_row(g1, y)
              THEN set_visible_row(g1, y,
                       [cells |-> [visible_row(g1, y).cells EXCEPT ![x + 1] = cell],
                        is_dirty |-> TRUE])
              ELSE g1
    IN advance_cursor(g2)

\* ScreenGrid::set_cursor_pos
set_cursor_pos(g, x, y) ==
    LET g1 == mark_row_dirty(g, g.cur_y)
        g2 == [g1 EXCEPT !.deferred_wrap = FALSE,
                         !.cur_x = Min(x, saturating_sub(g.cols, 1)),
                         !.cur_y = Min(y, saturating_sub(g.rows, 1))]
    IN mark_row_dirty(g2, g2.cur_y)

\* the cells with the 0-based columns lo..hi-1 replaced by the blank cell
blank_cells(g, cells, lo, hi) ==
    [i \in 1..Len(cells) |-> IF lo <= i - 1 /\ i - 1 < hi THEN BlankCellOf(g) ELSE cells[i]]

\* `for y in lo..hi { *visible_row_mut(y) = blank_row(..) }` (hi exclusive)
RECURSIVE blank_rows(_, _, _)
blank_rows(g, lo, hi) ==
    IF lo >= hi THEN g ELSE blank_rows(set_visible_row(g, lo, BlankOf(g)), lo + 1, hi)

\* ScreenGrid::clear_line
clear_line(g) ==
    set_visible_row([g EXCEPT !.deferred_wrap = FALSE], g.cur_y, BlankOf(g))

\* ScreenGrid::clear_line_to_cursor: columns 0..=cur_x that are < cols
clear_line_to_cursor(g) ==
    LET g1 == [g EXCEPT !.deferred_wrap = FALSE] IN
    IF has_visible_row(g1, g.cur_y)
    THEN set_visible_row(g1, g.cur_y,
             [cells |-> blank_cells(g, visible_row(g1, g.cur_y).cells, 0,
                                    Min(g.cur_x + 1, g.cols)),
              is_dirty |-> TRUE])
    ELSE g1

\* ScreenGrid::clear_line_from_cursor: columns cur_x..cols
clear_line_from_cursor(g) ==
    LET g1 == [g EXCEPT !.deferred_wrap = FALSE] IN
    IF has_visible_row(g1, g.cur_y)
    THEN set_visible_row(g1, g.cur_y,
             [cells |-> blank_cells(g, visible_row(g1, g.cur_y).cells, g.cur_x, g.cols),
              is_dirty |-> TRUE])
    ELSE g1

\* ScreenGrid::clear_to_cursor: rows scroll_top..cur_y, then clear_line_to_cursor
clear_to_cursor(g) ==
    clear_line_to_cursor(blank_rows([g EXCEPT !.deferred_wrap = FALSE], g.scroll_top, g.cur_y))

\* ScreenGrid::clear_from_cursor: clear_line_from_cursor, then rows cur_y+1..=scroll_bottom
clear_from_cursor(g) ==
    blank_rows(clear_line_from_cursor(g), g.cur_y + 1, g.scroll_bottom + 1)

\* ScreenGrid::clear_all: rows scroll_top..=scroll_bottom, then set_cursor_pos(0, scroll_top)
clear_all(g) ==
    LET g1 == blank_rows(g, g.scroll_top, g.scroll_bottom + 1)
        g2 == set_cursor_pos(g1, 0, g.scroll_top)
    IN [g2 EXCEPT !.deferred_wrap = FALSE, !.full_redraw_needed = TRUE]

\* the first m rows of a region replaced by blank rows
blank_head(g, region, m) ==
    [i \in 1..Len(region) |-> IF i <= m THEN BlankOf(g) ELSE region[i]]

\* the last m rows of a region replaced by blank rows
blank_tail(g, region, m) ==
    [i \in 1..Len(region) |-> IF i > Len(region) - m THEN BlankOf(g) ELSE region[i]]

\* lines with the 0-based slice [lo..=hi] replaced by region
splice(lines, lo, hi, region) ==
    SubSeq(lines, 1, lo) \o region \o SubSeq(lines, hi + 2, Len(lines))

\* ScreenGrid::insert_lines
insert_lines(g, n0) ==
    LET g1 == [g EXCEPT !.deferred_wrap = FALSE]
        y == g.cur_y
    IN IF y < g.scroll_top \/ y > g.scroll_bottom THEN g1
       ELSE LET n == Min(n0, g.scroll_bottom - y + 1)
                region_start_idx == scrollback_len(g) + y
                region_end_idx == scrollback_len(g) + g.scroll_bottom
            IN IF n = 0 THEN g1
               ELSE IF region_end_idx >= Len(g.lines) THEN g1
               ELSE LET affected_region == SubSeq(g.lines, region_start_idx + 1, region_end_idx + 1)
                        rotated == blank_head(g, rotate_right(affected_region, n), n)
                    IN [g1 EXCEPT !.lines = splice(g.lines, region_start_idx, region_end_idx, rotated),
                                  !.full_redraw_needed = TRUE]

\* ScreenGrid::delete_lines
delete_lines(g, n0) ==
    LET g1 == [g EXCEPT !.deferred_wrap = FALSE]
        y == g.cur_y
    IN IF y < g.scroll_top \/ y > g.scroll_bottom THEN g1
       ELSE LET n == Min(n0, g.scroll_bottom - y + 1)
                region_start_idx == scrollback_len(g) + y
                region_end_idx == scrollback_len(g) + g.scroll_bottom
            IN IF n = 0 THEN g1
               ELSE IF region_end_idx >= Len(g.lines) THEN g1
               ELSE LET affected_region == SubSeq(g.lines, region_start_idx + 1, region_end_idx + 1)
                        rotated == blank_tail(g, rotate_left(affected_region, n), n)
                    IN [g1 EXCEPT !.lines = splice(g.lines, region_start_idx, region_end_idx, rotated),
                                  !.full_redraw_needed = TRUE]

\* the loop of insert_chars: n times insert a blank at x and truncate to cols
RECURSIVE insert_blank_cells(_, _, _, _)
insert_blank_cells(g, cells, x, n) ==
    IF n = 0 \/ ~(x < g.cols) THEN cells
    ELSE LET ins == InsertAt(cells, x, BlankCellOf(g))
         IN insert_blank_cells(g, SubSeq(ins, 1, Min(Len(ins), g.cols)), x, n - 1)

\* ScreenGrid::insert_chars
insert_chars(g, n) ==
    LET g1 == [g EXCEPT !.deferred_wrap = FALSE] IN
    IF has_visible_row(g1, g.cur_y)
    THEN set_visible_row(g1, g.cur_y,
             [cells |-> insert_blank_cells(g, visible_row(g1, g.cur_y).cells, g.cur_x, n),
              is_dirty |-> TRUE])
    ELSE g1

\* the first loop of delete_chars: n times remove the cell at x, if there is one
RECURSIVE remove_cells(_, _, _)
remove_cells(cells, x, n) ==
    IF n = 0 THEN cells
    ELSE remove_cells(IF x < Len(cells) THEN RemoveAt(cells, x) ELSE cells, x, n - 1)

\* the second loop of delete_chars: push blanks while shorter than cols
pad_cells(g, cells) ==
    cells \o [i \in 1..saturating_sub(g.cols, Len(cells)) |-> BlankCellOf(g)]

\* ScreenGrid::delete_chars
delete_chars(g, n) ==
    LET g1 == [g EXCEPT !.deferred_wrap = FALSE] IN
    IF has_visible_row(g1, g.cur_y)
    THEN set_visible_row(g1, g.cur_y,
             [cells |-> pad_cells(g, remove_cells(visible_row(g1, g.cur_y).cells, g.cur_x, n)),
              is_dirty |-> TRUE])
    ELSE g1

\* get_display_row(y, offset) is Some
display_row_idx(g, y, offset) ==
    saturating_sub(saturating_sub(Len(g.lines), g.rows), offset) + y

----------------------------------------------------------------------------
(* TerminalState and the vte performer *)

\* Attrs::from_config
Attrs_from_config == [fg |-> ConfigFg, bg |-> ConfigBg, flags |-> NoFlags]

\* TerminalState::new
TerminalState_new(cols, rows) ==
    [normal_grid |-> new(cols, rows, NormalScrollback, ConfigFg, ConfigBg),
     alternate_grid |-> new(cols, rows, 0, ConfigFg, ConfigBg),
     active_screen |-> "Normal",
     attrs |-> Attrs_from_config,
     scroll_offset |-> 0,
     cursor_visible |-> TRUE,
     links |-> <<>>,
     next_link_id |-> 1,
     current_link_id |-> None,
     is_dirty |-> TRUE]

\* TerminalState::grid / VtePerformer::grid_mut (read)
active_grid(t) ==
    IF t.active_screen = "Normal" THEN t.normal_grid ELSE t.alternate_grid

\* VtePerformer::grid_mut (write)
with_grid(t, g) ==
    IF t.active_screen = "Normal"
    THEN [t EXCEPT !.normal_grid = g]
    ELSE [t EXCEPT !.alternate_grid = g]

\* vte::Params: a sequence of parameters; params_iter.next().map(|p| p[0]).unwrap_or(default)
get_param(params, default) == IF Len(params) >= 1 THEN params[1] ELSE default

\* the second call of the same get_param closure
get_param2(params, default) == IF Len(params) >= 2 THEN params[2] ELSE default

\* `let mut n = get_param(1); if n == 0 { n = 1; }`
count_param(params) ==
    LET n == get_param(params, 1) IN IF n = 0 THEN 1 ELSE n

\* a print that stores no hyperlink id
print_unlinked(t, c) ==
    with_grid(t, put_char_ex(active_grid(t), c, t.attrs.fg, t.attrs.bg, t.attrs.flags, None))

\* Perform::print
print(t, c) ==
    with_grid(t, put_char_ex(active_grid(t), c, t.attrs.fg, t.attrs.bg, t.attrs.flags,
                             t.current_link_id))

\* Perform::execute
execute(t, byte) ==
    LET g0 == active_grid(t)
        g1 == mark_row_dirty(g0, g0.cur_y)
        g2 == CASE byte \in {"LF", "IND"} -> line_feed(g1)
                [] byte = "NEL" -> [line_feed(g1) EXCEPT !.cur_x = 0]
                [] byte = "CR" -> [g1 EXCEPT !.cur_x = 0]
                [] byte = "BS" -> [g1 EXCEPT !.cur_x = saturating_sub(g1.cur_x, 1)]
                [] OTHER -> g1
    IN with_grid(t, mark_row_dirty(g2, g2.cur_y))

\* the URLs of the registry
LinkUrls(links) == {links[id] : id \in DOMAIN links}

\* HashMap::insert
hash_insert(map, key, val) ==
    [k \in DOMAIN map \cup {key} |-> IF k = key THEN val ELSE map[k]]

\* an OSC 8 that allocates an id for every opening, without the lookup
osc_dispatch_no_lookup(t, params) ==
    IF Len(params) = 0 \/ params[1] # "8" THEN t
    ELSE IF Len(params) < 3 THEN t
    ELSE IF params[3] = "" THEN [t EXCEPT !.current_link_id = None]
    ELSE [t EXCEPT !.links = hash_insert(t.links, t.next_link_id, params[3]),
                   !.next_link_id = t.next_link_id + 1,
                   !.current_link_id = Some(t.next_link_id)]

\* Perform::osc_dispatch: params are the ';'-separated fields of the OSC
osc_dispatch(t, params) ==
    IF Len(params) = 0 \/ params[1] # "8" THEN t
    ELSE IF Len(params) < 3 THEN t
    ELSE LET url == params[3]
             found == {id \in DOMAIN t.links : t.links[id] = url}
         IN IF url = "" THEN [t EXCEPT !.current_link_id = None]
            ELSE IF found # {}
            THEN [t EXCEPT !.current_link_id = Some(CHOOSE id \in found : TRUE)]
            ELSE [t EXCEPT !.links = hash_insert(t.links, t.next_link_id, url),
                           !.next_link_id = t.next_link_id + 1,
                           !.current_link_id = Some(t.next_link_id)]

\* csi_dispatch with intermediate '?' and first parameter 1049
csi_private_1049(t, final_byte) ==
    LET t1 == CASE final_byte = "h" ->
                       LET a == [t EXCEPT !.active_screen = "Alternate"]
                       IN with_grid(a, clear_all(active_grid(a)))
                [] final_byte = "l" ->
                       [t EXCEPT !.active_screen = "Normal", !.cursor_visible = TRUE]
                [] OTHER -> t
    IN with_grid(t1, [active_grid(t1) EXCEPT !.full_redraw_needed = TRUE])

\* csi_dispatch with intermediate '?' and another first parameter (DECSET/DECRST 25)
csi_private_other(t, params, final_byte) ==
    IF final_byte \in {"h", "l"} /\ get_param(params, 0) = 25
    THEN LET g == active_grid(t)
         IN with_grid([t EXCEPT !.cursor_visible = (final_byte = "h")],
                      mark_row_dirty(g, g.cur_y))
    ELSE t

\* csi_dispatch 'r': DECSTBM
csi_decstbm(t, params) ==
    LET g == active_grid(t) IN
    IF Len(params) = 0
    THEN with_grid(t, [g EXCEPT !.scroll_top = 0,
                                !.scroll_bottom = saturating_sub(g.rows, 1)])
    ELSE LET top == saturating_sub(get_param(params, 1), 1)
             bottom == saturating_sub(get_param2(params, g.rows), 1)
         IN IF top < bottom /\ bottom < g.rows
            THEN with_grid(t, set_cursor_pos([g EXCEPT !.scroll_top = top,
                                                       !.scroll_bottom = bottom], 0, 0))
            ELSE t

\* csi_dispatch 'A': CUU
csi_cuu(t, params) ==
    LET g == active_grid(t)
        n == count_param(params)
    IN with_grid(t, [g EXCEPT !.cur_y = Max(saturating_sub(g.cur_y, n), g.scroll_top)])

\* csi_dispatch 'B': CUD
csi_cud(t, params) ==
    LET g == active_grid(t)
        n == count_param(params)
    IN with_grid(t, [g EXCEPT !.cur_y = Min(g.cur_y + n, g.scroll_bottom)])

\* csi_dispatch 'C': CUF
csi_cuf(t, params) ==
    LET g == active_grid(t)
        n == count_param(params)
    IN with_grid(t, [g EXCEPT !.cur_x = Min(g.cur_x + n, saturating_sub(g.cols, 1))])

\* csi_dispatch 'D': CUB
csi_cub(t, params) ==
    LET g == active_grid(t)
        n == count_param(params)
    IN with_grid(t, [g EXCEPT !.cur_x = saturating_sub(g.cur_x, n)])

\* csi_dispatch 'H': CUP (two calls of get_param(1))
csi_cup(t, params) ==
    LET row == saturating_sub(get_param(params, 1), 1)
        col == saturating_sub(get_param2(params, 1), 1)
    IN with_grid(t, set_cursor_pos(active_grid(t), col, row))

\* csi_dispatch 'J': ED
csi_ed(t, params) ==
    LET g == active_grid(t)
        p == get_param(params, 0)
    IN CASE p = 0 -> with_grid(t, clear_from_cursor(g))
         [] p = 2 -> with_grid(t, clear_all(g))
         [] OTHER -> t

\* csi_dispatch 'K': EL
csi_el(t, params) ==
    LET g == active_grid(t)
        p == get_param(params, 0)
    IN CASE p = 0 -> with_grid(t, clear_line_from_cursor(g))
         [] p = 2 -> with_grid(t, clear_line(g))
         [] OTHER -> t

\* the cell loop of ECH: cells x..x+n-1 that exist
ech_cells(cells, x, n, blank) ==
    [i \in 1..Len(cells) |-> IF x <= i - 1 /\ i - 1 < x + n THEN blank ELSE cells[i]]

\* csi_dispatch 'X': ECH
csi_ech(t, params) ==
    LET blank_cell == [ch |-> " ", fg |-> t.attrs.fg, bg |-> t.attrs.bg,
                       flags |-> NoFlags, link_id |-> t.current_link_id]
        g == active_grid(t)
        n == get_param(params, 1)
    IN IF has_visible_row(g, g.cur_y)
       THEN with_grid(t, set_visible_row(g, g.cur_y,
                [cells |-> ech_cells(visible_row(g, g.cur_y).cells, g.cur_x, n, blank_cell),
                 is_dirty |-> TRUE]))
       ELSE t

\* csi_dispatch '@', 'L', 'M', 'P': ICH, IL, DL, DCH
csi_ich(t, params) == with_grid(t, insert_chars(active_grid(t), count_param(params)))
csi_il(t, params) == with_grid(t, insert_lines(active_grid(t), count_param(params)))
csi_dl(t, params) == with_grid(t, delete_lines(active_grid(t), count_param(params)))
csi_dch(t, params) == with_grid(t, delete_chars(active_grid(t), count_param(params)))

\* `x as u8`
as_u8(x) == x % 256

\* u8::saturating_add
saturating_add(a, b) == Min(a + b, 255)

\* const BASE in ansi_16
ansi_16_BASE ==
    << <<0, 0, 0>>, <<205, 0, 0>>, <<0, 205, 0>>, <<205, 205, 0>>,
       <<0, 0, 238>>, <<205, 0, 205>>, <<0, 205, 205>>, <<229, 229, 229>> >>

\* ansi_16(idx, bright)
ansi_16(idx, bright) ==
    LET c == ansi_16_BASE[idx + 1]
    IN IF bright
       THEN <<saturating_add(c[1], 50), saturating_add(c[2], 50), saturating_add(c[3], 50)>>
       ELSE c

\* u8 arithmetic as the release build computes it: the result wraps at 2^8
\* (the debug build panics where wrapping_u8 changes the value)
wrapping_u8(x) == x % 256

\* ansi_256_to_rgb with the grey ramp starting at 0 instead of 8
ansi_256_gray_from_zero(color_code) ==
    IF color_code <= 15
    THEN ansi_16(color_code % 8, color_code > 7)
    ELSE IF color_code <= 231
    THEN LET code == color_code - 16
         IN <<(code \div 36) * 51, ((code % 36) \div 6) * 51, (code % 6) * 51>>
    ELSE LET gray == (color_code - 232) * 10
         IN <<gray, gray, gray>>

\* ansi_256_to_rgb(color_code)
ansi_256_to_rgb(color_code) ==
    IF color_code <= 15
    THEN LET bright == color_code > 7
             idx == IF bright THEN wrapping_u8(color_code - 8) ELSE color_code
         IN ansi_16(idx, bright)
    ELSE IF color_code <= 231
    THEN LET code == wrapping_u8(color_code - 16)
         IN <<wrapping_u8((code \div 36) * 51),
              wrapping_u8(((code % 36) \div 6) * 51),
              wrapping_u8((code % 6) * 51)>>
    ELSE LET gray == wrapping_u8(wrapping_u8(wrapping_u8(color_code - 232) * 10) + 8)
         IN <<gray, gray, gray>>

\* ansi_256_to_rgb: the exact value of every u8 subexpression the function
\* evaluates for color_code, before any wrapping
ansi_256_steps(color_code) ==
    IF color_code <= 15
    THEN IF color_code > 7 THEN {color_code - 8} ELSE {color_code}
    ELSE IF color_code <= 231
    THEN LET code == color_code - 16
         IN {code, code \div 36, (code \div 36) * 51, code % 36, (code % 36) \div 6,
             ((code % 36) \div 6) * 51, code % 6, (code % 6) * 51}
    ELSE {color_code - 232, (color_code - 232) * 10, (color_code - 232) * 10 + 8}

\* SGR 0 with the flags kept: only the colours go back to the configuration
sgr_reset_colors(attrs) == [Attrs_from_config EXCEPT !.flags = attrs.flags]

\* csi_dispatch 'm', `*self.attrs = Attrs::from_config(&self.config)`
sgr_reset(attrs) == Attrs_from_config

\* csi_dispatch 'm', arm 4: `4` and `4:x`; p is one parameter with its subparameters
sgr_underline(flags, p) ==
    LET cleared == flags \ {"UNDERLINE", "UNDERCURL"}
        style == IF Len(p) > 1 THEN p[2] ELSE 1
    IN CASE style = 1 -> cleared \cup {"UNDERLINE"}
         [] style = 3 -> cleared \cup {"UNDERCURL"}
         [] style = 0 -> cleared
         [] OTHER -> cleared \cup {"UNDERLINE"}

\* parameters taken from param_iter (1-based position i included) if every
\* parameter, a value the code does not know too, took the next one with it
sgr_consumed_greedy(params, i) == Min(2, Len(params) - i + 1)

\* csi_dispatch 'm': parameters taken from param_iter by the parameter at the
\* 1-based position i, itself included; 38 and 48 take their arguments
sgr_consumed(params, i) ==
    IF params[i][1] \in {38, 48}
    THEN IF i + 1 > Len(params) THEN 1
         ELSE CASE params[i + 1][1] = 5 -> Min(3, Len(params) - i + 1)
                [] params[i + 1][1] = 2 -> Min(5, Len(params) - i + 1)
                [] OTHER -> 2
    ELSE 1

\* csi_dispatch 'm', arms 38 and 48: the colour the arguments after position i
\* give, None where the code assigns nothing
sgr_extended(params, i) ==
    IF i + 1 > Len(params) THEN None
    ELSE CASE params[i + 1][1] = 5 ->
                  IF i + 2 <= Len(params)
                  THEN Some(ansi_256_to_rgb(as_u8(params[i + 2][1])))
                  ELSE None
           [] params[i + 1][1] = 2 ->
                  IF i + 4 <= Len(params)
                  THEN Some(<<as_u8(params[i + 2][1]), as_u8(params[i + 3][1]),
                              as_u8(params[i + 4][1])>>)
                  ELSE None
           [] OTHER -> None

\* csi_dispatch 'm': one turn of the `while let Some(p) = param_iter.next()` loop
sgr_param(attrs, params, i) ==
    LET p == params[i]
        n == p[1]
        ext == sgr_extended(params, i)
    IN CASE n = 0 -> sgr_reset(attrs)
         [] n = 1 -> [attrs EXCEPT !.flags = @ \cup {"BOLD"}]
         [] n = 2 -> [attrs EXCEPT !.flags = @ \cup {"FAINT"}]
         [] n = 3 -> [attrs EXCEPT !.flags = @ \cup {"ITALIC"}]
         [] n = 4 -> [attrs EXCEPT !.flags = sgr_underline(@, p)]
         [] n = 7 -> [attrs EXCEPT !.flags = @ \cup {"INVERSE"}]
         [] n = 22 -> [attrs EXCEPT !.flags = @ \ {"BOLD", "FAINT"}]
         [] n = 23 -> [attrs EXCEPT !.flags = @ \ {"ITALIC"}]
         [] n = 24 -> [attrs EXCEPT !.flags = @ \ {"UNDERLINE", "UNDERCURL"}]
         [] n = 27 -> [attrs EXCEPT !.flags = @ \ {"INVERSE"}]
         [] n \in 30..37 -> [attrs EXCEPT !.fg = ansi_16(n - 30, FALSE)]
         [] n \in 90..97 -> [attrs EXCEPT !.fg = ansi_16(n - 90, TRUE)]
         [] n = 39 -> [attrs EXCEPT !.fg = Attrs_from_config.fg]
         [] n \in 40..47 -> [attrs EXCEPT !.bg = ansi_16(n - 40, FALSE)]
         [] n \in 100..107 -> [attrs EXCEPT !.bg = ansi_16(n - 100, TRUE)]
         [] n = 49 -> [attrs EXCEPT !.bg = Attrs_from_config.bg]
         [] n = 38 -> IF ext = None THEN attrs ELSE [attrs EXCEPT !.fg = ext[1]]
         [] n = 48 -> IF ext = None THEN attrs ELSE [attrs EXCEPT !.bg = ext[1]]
         [] OTHER -> attrs

\* csi_dispatch 'm': the loop over param_iter from the 1-based position i
RECURSIVE sgr_loop(_, _, _)
sgr_loop(attrs, params, i) ==
    IF i > Len(params) THEN attrs
    ELSE sgr_loop(sgr_param(attrs, params, i), params, i + sgr_consumed(params, i))

\* csi_dispatch 'm': SGR; params is the list of parameters, each the sequence
\* of its subparameters
csi_sgr(t, params) ==
    IF Len(params) = 0
    THEN [t EXCEPT !.attrs = sgr_reset(t.attrs)]
    ELSE [t EXCEPT !.attrs = sgr_loop(t.attrs, params, 1)]

\* VtePerformer::csi_dispatch
csi_dispatch(t, params, intermediate, final_byte) ==
    IF intermediate = "?"
    THEN IF Len(params) >= 1 /\ params[1] = 1049
         THEN csi_private_1049(t, final_byte)
         ELSE csi_private_other(t, params, final_byte)
    ELSE CASE final_byte = "r" -> csi_decstbm(t, params)
           [] final_byte = "A" -> csi_cuu(t, params)
           [] final_byte = "B" -> csi_cud(t, params)
           [] final_byte = "C" -> csi_cuf(t, params)
           [] final_byte = "D" -> csi_cub(t, params)
           [] final_byte = "H" -> csi_cup(t, params)
           [] final_byte = "J" -> csi_ed(t, params)
           [] final_byte = "K" -> csi_el(t, params)
           [] final_byte = "X" -> csi_ech(t, params)
           [] final_byte = "@" -> csi_ich(t, params)
           [] final_byte = "L" -> csi_il(t, params)
           [] final_byte = "M" -> csi_dl(t, params)
           [] final_byte = "P" -> csi_dch(t, params)
           [] final_byte = "m" -> csi_sgr(t, [k \in 1..Len(params) |-> <<params[k]>>])
           [] OTHER -> t

\* TerminalState::feed up to the parser: is_dirty, and the viewport snaps back
feed_begin(t) ==
    [t EXCEPT !.is_dirty = TRUE,
              !.scroll_offset = IF t.active_screen = "Normal" THEN 0 ELSE t.scroll_offset]

\* scroll_viewport without the early return on the alternate screen
scroll_viewport_unguarded(t, delta) ==
    LET new_offset == Min(Max(t.scroll_offset - delta, 0), scrollback_len(t.normal_grid))
    IN IF t.scroll_offset # new_offset
       THEN [t EXCEPT !.scroll_offset = new_offset, !.is_dirty = TRUE]
       ELSE t

\* TerminalState::scroll_viewport
scroll_viewport(t, delta) ==
    IF t.active_screen = "Alternate" THEN t
    ELSE LET new_offset == Min(Max(t.scroll_offset - delta, 0), scrollback_len(t.normal_grid))
         IN IF t.scroll_offset # new_offset
            THEN [t EXCEPT !.scroll_offset = new_offset, !.is_dirty = TRUE]
            ELSE t

\* TerminalState::clear_dirty
clear_dirty(t) ==
    with_grid([t EXCEPT !.is_dirty = FALSE], clear_all_dirty_flags(active_grid(t)))

\* App::window_event, WindowEvent::Resized, under the terminal mutex
window_resized(t, cols, rows) ==
    [t EXCEPT !.normal_grid = resize(t.normal_grid, cols, rows),
              !.alternate_grid = resize(t.alternate_grid, cols, rows),
              !.is_dirty = TRUE]

----------------------------------------------------------------------------
(* app.rs: the PTY reader thread, the channel and the UI loop *)

\* the window sizes (cols, rows) the terminal is created with and resized to
Sizes == {<<MaxCols - 1, MaxRows>>, <<MaxCols, MaxRows - 1>>}

RECURSIVE Flatten(_)
\* the bytes of a sequence of batches, in order
Flatten(batches) ==
    IF batches = <<>> THEN <<>> ELSE Head(batches) \o Flatten(Tail(batches))

\* App::new: the mouse and selection fields, with Renderer::last_mouse_pos
\* (in pixels), the link modifier of App::modifiers and the text last put on
\* the clipboard
App_new ==
    [is_mouse_dragging |-> FALSE,
     hovered_link_id |-> None,
     selection_start |-> None,
     selection_end |-> None,
     last_mouse_pos |-> <<0, 0>>,
     link_modifier |-> FALSE,
     clipboard |-> None]

\* Renderer::grid_size: the cells that fit the surface; the grids are created
\* with it and resized to it
grid_size(t) == <<t.normal_grid.cols, t.normal_grid.rows>>

\* Renderer::pixels_to_grid, cells of CellPx by CellPx pixels
pixels_to_grid(t, pos) ==
    <<Min(pos[1] \div CellPx, grid_size(t)[1] - 1),
      Min(pos[2] \div CellPx, grid_size(t)[2] - 1)>>

\* ScreenGrid::get_display_row(y, offset), an Option
get_display_row(g, y, offset) ==
    LET total_lines == Len(g.lines)
        top_visible_idx == saturating_sub(total_lines, g.rows)
        requested_idx == saturating_sub(top_visible_idx, offset)
    IN IF requested_idx + y < total_lines THEN Some(At(g.lines, requested_idx + y)) ELSE None

\* TerminalState::get_link_at(col, row)
get_link_at(t, col, row) ==
    LET r == get_display_row(active_grid(t), row, t.scroll_offset)
    IN IF r = None THEN None
       ELSE IF col < Len(r[1].cells) THEN At(r[1].cells, col).link_id
       ELSE None

\* str::trim_end on a line of cells: the trailing spaces go
RECURSIVE trim_end(_)
trim_end(text) ==
    IF text # <<>> /\ text[Len(text)] = " " THEN trim_end(SubSeq(text, 1, Len(text) - 1))
    ELSE text

\* get_selected_text: the loop `for y in start_row..=end_row` from row y on
RECURSIVE selected_lines(_, _, _, _)
selected_lines(t, start, end, y) ==
    IF y > end[2] THEN <<>>
    ELSE LET r == get_display_row(active_grid(t), y, t.scroll_offset)
             line_start == IF y = start[2] THEN start[1] ELSE 0
             line_end == IF y = end[2] THEN end[1] ELSE active_grid(t).cols
             chars == IF r = None THEN <<>> ELSE [i \in 1..Len(r[1].cells) |-> r[1].cells[i].ch]
             line_text == SubSeq(chars, line_start + 1,
                                 Min(Len(chars), line_start + saturating_sub(line_end, line_start)))
         IN (IF y > start[2] THEN <<"\n">> ELSE <<>>)
                \o (IF r = None THEN <<>>
                    ELSE IF y < end[2] THEN trim_end(line_text) ELSE line_text)
                \o selected_lines(t, start, end, y + 1)

\* App::get_selected_text, an Option
get_selected_text(a, t) ==
    IF a.selection_start = None \/ a.selection_end = None THEN None
    ELSE LET start_pos == a.selection_start[1]
             end_pos == a.selection_end[1]
             ordered == start_pos[2] < end_pos[2]
                            \/ (start_pos[2] = end_pos[2] /\ start_pos[1] <= end_pos[1])
             start == IF ordered THEN start_pos ELSE end_pos
             end == IF ordered THEN end_pos ELSE start_pos
             result == selected_lines(t, start, end, start[2])
         IN IF result = <<>> THEN None ELSE Some(result)

\* the UI thread between two events: in no handler, holding no guard
Idle == [handler |-> "idle", rest |-> <<>>, guards |-> 0]

\* Renderer::new: the three decoration caches, keyed by row hash. The
\* instance vectors are cleared at the start of every frame: they are the
\* frame and selection_bgs of prepare_decorations' result, the frame kept by
\* the display row that contributed each slice
Renderer_new ==
    [bg_cache |-> <<>>, underline_cache |-> <<>>, undercurl_cache |-> <<>>]

\* the caches of a renderer, which last from frame to frame
caches_of(r) ==
    [bg_cache |-> r.bg_cache, underline_cache |-> r.underline_cache,
     undercurl_cache |-> r.undercurl_cache]

\* LruCache::put below the capacity of 4000 entries
cache_put(cache, key, value) ==
    [k \in DOMAIN cache \cup {key} |-> IF k = key THEN value ELSE cache[k]]

\* prepare_decorations: what is fed to the hasher for display row y. The
\* hash of a Row is a function of the row alone; rows, cursor columns and
\* hovered links that differ are taken to hash apart
row_hash(t, grid_row, y, hovered_link_id) ==
    LET g == active_grid(t)
        cursor_visible == t.cursor_visible /\ t.scroll_offset = 0
        row_hovered_link_id ==
            IF hovered_link_id # None
                   /\ \E i \in 1..Len(grid_row.cells) : grid_row.cells[i].link_id = hovered_link_id
            THEN hovered_link_id ELSE None
    IN <<grid_row, IF cursor_visible /\ y = g.cur_y THEN <<g.cur_x>> ELSE <<>>,
         row_hovered_link_id>>

\* prepare_decorations, slow path: the instances of the cells from x on;
\* kind is "bg", "underline" or "undercurl"
RECURSIVE row_instances(_, _, _, _, _, _)
row_instances(t, grid_row, y, hovered_link_id, kind, x) ==
    IF x >= Len(grid_row.cells) THEN <<>>
    ELSE LET g == active_grid(t)
             cell == At(grid_row.cells, x)
             cursor_visible == t.cursor_visible /\ t.scroll_offset = 0
             is_cursor == cursor_visible /\ y = g.cur_y /\ x = g.cur_x
             y_pos == y * CellPx
             bg_color == IF is_cursor THEN cell.fg ELSE cell.bg
             fg_color == IF is_cursor THEN cell.bg ELSE cell.fg
             is_hovered_link == cell.link_id = hovered_link_id /\ hovered_link_id # None
             staged ==
                 CASE kind = "bg" -> TRUE
                   [] kind = "underline" -> "UNDERLINE" \in cell.flags
                   [] OTHER -> "UNDERCURL" \in cell.flags \/ is_hovered_link
             instance ==
                 [position |-> <<x * CellPx, y_pos>>,
                  color |-> IF kind = "bg" THEN bg_color \o <<255>> ELSE fg_color \o <<255>>]
         IN (IF staged THEN <<instance>> ELSE <<>>)
                \o row_instances(t, grid_row, y, hovered_link_id, kind, x + 1)

\* prepare_decorations: the body of `for y in 0..grid_rows` for one row
decorate_row(r, t, y, hovered_link_id) ==
    LET d == get_display_row(active_grid(t), y, t.scroll_offset)
    IN IF d = None THEN r
       ELSE LET grid_row == d[1]
                hash == row_hash(t, grid_row, y, hovered_link_id)
                cache_hit == hash \in DOMAIN r.bg_cache
                row_bgs == row_instances(t, grid_row, y, hovered_link_id, "bg", 0)
                row_underlines == row_instances(t, grid_row, y, hovered_link_id, "underline", 0)
                row_undercurls == row_instances(t, grid_row, y, hovered_link_id, "undercurl", 0)
            IN IF cache_hit
               THEN [r EXCEPT !.frame = Append(@,
                        [y |-> y, cache_hit |-> TRUE,
                         bg |-> r.bg_cache[hash],
                         underline |-> r.underline_cache[hash],
                         undercurl |-> r.undercurl_cache[hash]])]
               ELSE [r EXCEPT !.frame = Append(@,
                        [y |-> y, cache_hit |-> FALSE,
                         bg |-> row_bgs, underline |-> row_underlines,
                         undercurl |-> row_undercurls]),
                              !.bg_cache = cache_put(@, hash, row_bgs),
                              !.underline_cache = cache_put(@, hash, row_underlines),
                              !.undercurl_cache = cache_put(@, hash, row_undercurls)]

\* prepare_decorations: the loop `for y in 0..grid_rows` from row y on
RECURSIVE decorate_rows(_, _, _, _)
decorate_rows(r, t, y, hovered_link_id) ==
    IF y >= grid_size(t)[2] THEN r
    ELSE decorate_rows(decorate_row(r, t, y, hovered_link_id), t, y + 1, hovered_link_id)

\* prepare_selection_bg: the cells [line_start, line_end) of display row y
selection_row(t, start, end, y) ==
    IF get_display_row(active_grid(t), y, t.scroll_offset) = None THEN <<>>
    ELSE LET line_start == IF y = start[2] THEN start[1] ELSE 0
             line_end == IF y = end[2] THEN end[1] ELSE active_grid(t).cols
         IN [i \in 1..saturating_sub(line_end, line_start) |->
                [position |-> <<(line_start + i - 1) * CellPx, y * CellPx>>,
                 color |-> <<120, 120, 120, 128>>]]

\* prepare_selection_bg: the loop `for y in start_row..=end_row` from row y on
RECURSIVE selection_rows(_, _, _, _)
selection_rows(t, start, end, y) ==
    IF y > end[2] THEN <<>>
    ELSE selection_row(t, start, end, y) \o selection_rows(t, start, end, y + 1)

\* Renderer::prepare_selection_bg; selection is an Option of (start, end)
prepare_selection_bg(selection, t) ==
    IF selection = None THEN <<>>
    ELSE LET start_pos == selection[1][1]
             end_pos == selection[1][2]
             ordered == start_pos[2] < end_pos[2]
                            \/ (start_pos[2] = end_pos[2] /\ start_pos[1] <= end_pos[1])
             start == IF ordered THEN start_pos ELSE end_pos
             end == IF ordered THEN end_pos ELSE start_pos
         IN selection_rows(t, start, end, start[2])

\* Renderer::prepare_decorations
prepare_decorations(r, t, selection, hovered_link_id) ==
    LET start == [bg_cache |-> r.bg_cache, underline_cache |-> r.underline_cache,
                  undercurl_cache |-> r.undercurl_cache, frame |-> <<>>,
                  selection_bgs |-> <<>>]
    IN [decorate_rows(start, t, 0, hovered_link_id)
           EXCEPT !.selection_bgs = prepare_selection_bg(selection, t)]

\* App::window_event, RedrawRequested: the selection handed to render
selection_of(a) ==
    IF a.selection_start # None /\ a.selection_end # None
    THEN Some(<<a.selection_start[1], a.selection_end[1]>>)
    ELSE None

\* the left button pressed on a link with the link modifier held: the URL is
\* opened and the handler returns
opens_link(a, t) ==
    LET cell == pixels_to_grid(t, a.last_mouse_pos)
        link == get_link_at(t, cell[1], cell[2])
    IN a.link_modifier /\ link # None /\ link[1] \in DOMAIN t.links

\* a press that starts the drag and leaves the selection where it was
press_keeps_selection(a, t) ==
    IF opens_link(a, t) THEN a ELSE [a EXCEPT !.is_mouse_dragging = TRUE]

\* WindowEvent::MouseInput, left button pressed: the App fields afterwards
press(a, t) ==
    IF opens_link(a, t) THEN a
    ELSE [a EXCEPT !.is_mouse_dragging = TRUE,
                   !.selection_start = Some(pixels_to_grid(t, a.last_mouse_pos)),
                   !.selection_end = Some(pixels_to_grid(t, a.last_mouse_pos))]

\* WindowEvent::MouseInput, left button released: the App fields afterwards
release(a, t) ==
    [a EXCEPT !.is_mouse_dragging = FALSE,
              !.clipboard = IF get_selected_text(a, t) # None
                            THEN get_selected_text(a, t) ELSE @]

\* WindowEvent::CursorMoved to the pixel pos: the App fields afterwards;
\* update_hover_state, then the selection end while dragging
cursor_moved(a, t, pos) ==
    LET cell == pixels_to_grid(t, pos)
        moved == [a EXCEPT !.last_mouse_pos = pos,
                           !.hovered_link_id = get_link_at(t, cell[1], cell[2])]
    IN IF a.is_mouse_dragging
       THEN [moved EXCEPT !.selection_end = Some(cell)]
       ELSE moved

\* App::new and App::resumed: nothing read, nothing buffered, reader started
PipeInit ==
    /\ pty_read = 0
    /\ reader_pc = "read"
    /\ data = <<>>
    /\ channel = <<>>
    /\ pending_events = 0
    /\ pty_data_buffer = <<>>
    /\ fed = <<>>
    /\ redraw_requested = FALSE
    /\ more_shaping_work = FALSE
    /\ exited = FALSE
    /\ app_pc = "running"
    /\ child_killed = FALSE
    /\ reader_handle = "Some"
    /\ app = App_new
    /\ renderer = Renderer_new
    /\ ui = Idle

\* a drain that puts the received batches in front of the buffered bytes
drain_newest_first(buffer, batches) == Flatten(batches) \o buffer

\* user_event: pty_data_buffer.extend(data) for every batch of rx.try_iter(),
\* the oldest batch first, every batch behind the bytes already buffered
drain_channel(buffer, batches) == buffer \o Flatten(batches)

RECURSIVE parse_loop(_, _, _)
\* the drain loop of RedrawRequested run for at most k iterations: each takes
\* min(len, PARSE_CHUNK_SIZE) bytes off the front of the buffer and feeds them
parse_loop(buffer, parsed, k) ==
    IF k = 0 \/ buffer = <<>>
    THEN [buffer |-> buffer, parsed |-> parsed]
    ELSE LET to_process == Min(Len(buffer), ParseChunkSize)
         IN parse_loop(SubSeq(buffer, to_process + 1, Len(buffer)),
                       parsed \o SubSeq(buffer, 1, to_process), k - 1)

\* a frame end that ignores the shaper's answer
redraw_if_buffered(buffer, more) == buffer # <<>>

\* a frame end that ignores the bytes left in the buffer
redraw_if_more(buffer, more) == more

\* the end of RedrawRequested: whether another redraw is requested
needs_redraw(buffer, more) == buffer # <<>> \/ more

\* a reader thread that marks the terminal dirty for the bytes it sends
reader_marks_dirty(t) == [t EXCEPT !.is_dirty = TRUE]

\* the terminal after a step of the reader thread: the closure moves reader,
\* tx and proxy in and owns buf; the Arc<Mutex<TerminalState>> is not in it
reader_term(t) == t

\* reader thread: reader.read(&mut buf) returns n > 0 bytes, or Ok(0) | Err
ReaderRead ==
    /\ reader_pc = "read"
    /\ \/ \E n \in 1..MaxChunk :
              /\ pty_read + n <= MaxBytes
              /\ data' = [i \in 1..n |-> pty_read + i]
              /\ pty_read' = pty_read + n
              /\ reader_pc' = "send"
       \/ /\ reader_pc' = "done"
          /\ UNCHANGED <<data, pty_read>>
    /\ term' = reader_term(term)
    /\ UNCHANGED <<grid, channel, pending_events, pty_data_buffer, fed,
                   redraw_requested, more_shaping_work, exited, shutdown, app, renderer, ui>>

\* reader thread: tx.send(data)
ReaderSend ==
    /\ reader_pc = "send"
    /\ channel' = Append(channel, data)
    /\ data' = <<>>
    /\ reader_pc' = "notify"
    /\ term' = reader_term(term)
    /\ UNCHANGED <<grid, pty_read, pending_events, pty_data_buffer, fed,
                   redraw_requested, more_shaping_work, exited, shutdown, app, renderer, ui>>

\* reader thread: proxy.send_event(CustomEvent::PtyData).ok(); the event is
\* dropped once the event loop has exited
ReaderNotify ==
    /\ reader_pc = "notify"
    /\ pending_events' = IF exited THEN pending_events ELSE pending_events + 1
    /\ reader_pc' = "read"
    /\ term' = reader_term(term)
    /\ UNCHANGED <<grid, pty_read, data, channel, pty_data_buffer, fed,
                   redraw_requested, more_shaping_work, exited, shutdown, app, renderer, ui>>

\* App::user_event(CustomEvent::PtyData)
UserEvent ==
    /\ ~exited
    /\ pending_events > 0
    /\ pending_events' = pending_events - 1
    /\ pty_data_buffer' = drain_channel(pty_data_buffer, channel)
    /\ channel' = <<>>
    /\ redraw_requested' = TRUE
    /\ UNCHANGED <<grid, term, pty_read, reader_pc, data, fed, more_shaping_work, exited, shutdown, app, renderer, ui>>

\* WindowEvent::RedrawRequested with a drain loop of k iterations for some k
\* of K; the bytes are opaque here, of TerminalState::feed the model keeps
\* the prelude, and of Renderer::render the final clear_dirty; the shaper's
\* answer is any boolean
RedrawFrame(K) ==
    /\ ~exited
    /\ redraw_requested
    /\ \E k \in K, more \in BOOLEAN :
           LET r == parse_loop(pty_data_buffer, <<>>, k)
           IN /\ pty_data_buffer' = r.buffer
              /\ fed' = fed \o r.parsed
              /\ term' = clear_dirty(IF r.parsed # <<>> THEN feed_begin(term) ELSE term)
              /\ more_shaping_work' = more
              /\ redraw_requested' = needs_redraw(r.buffer, more)
    /\ UNCHANGED <<grid, pty_read, reader_pc, data, channel, pending_events, exited, shutdown, app, renderer, ui>>

RedrawRequested == RedrawFrame(0..MaxIter)

\* WindowEvent::MouseWheel
MouseWheel ==
    /\ ~exited
    /\ \E scroll_lines \in {-1, 1} : term' = scroll_viewport(term, -scroll_lines)
    /\ redraw_requested' = TRUE
    /\ UNCHANGED <<grid, pty_read, reader_pc, data, channel, pending_events,
                   pty_data_buffer, fed, more_shaping_work, exited, shutdown, app, renderer, ui>>

\* WindowEvent::Resized in the running application: both grids are resized
\* and is_dirty is set under the terminal mutex
WindowResized ==
    /\ ~exited
    /\ \E sz \in Sizes : term' = window_resized(term, sz[1], sz[2])
    /\ UNCHANGED <<grid, pty_read, reader_pc, data, channel, pending_events,
                   pty_data_buffer, fed, redraw_requested, more_shaping_work,
                   exited, shutdown, app, renderer, ui>>

\* WindowEvent::CloseRequested
CloseRequested ==
    /\ ~exited
    /\ exited' = TRUE
    /\ app_pc' = "exiting"
    /\ UNCHANGED <<grid, term, pty_read, reader_pc, data, channel, pending_events,
                   pty_data_buffer, fed, redraw_requested, more_shaping_work,
                   child_killed, reader_handle, app, renderer, ui>>

\* a join that does not wait for the thread: the handle is dropped
join_detached(pc) == TRUE

\* JoinHandle::join returns once the thread has left its closure;
\* JoinHandle::is_finished is true from the same moment
join_returns(pc) == pc = "done"

\* App::about_to_wait: the reader thread has finished; reader.take(), join,
\* event_loop.exit()
AboutToWait ==
    /\ ~exited
    /\ reader_handle = "Some"
    /\ join_returns(reader_pc)
    /\ reader_handle' = "None"
    /\ exited' = TRUE
    /\ app_pc' = "exiting"
    /\ UNCHANGED <<grid, term, pty_read, reader_pc, data, channel, pending_events,
                   pty_data_buffer, fed, redraw_requested, more_shaping_work,
                   child_killed, app, renderer, ui>>

\* App::exiting up to the join: pty.child.kill(), self.pty = None
ExitingKill ==
    /\ app_pc = "exiting"
    /\ child_killed' = TRUE
    /\ app_pc' = "join"
    /\ UNCHANGED <<grid, term, pty_read, reader_pc, data, channel, pending_events,
                   pty_data_buffer, fed, redraw_requested, more_shaping_work,
                   exited, reader_handle, app, renderer, ui>>

\* App::exiting from `if let Some(reader) = self.reader.take()`: reader.join()
\* blocks until the reader thread is done; then the handler returns and
\* run_app with it
ExitingJoin ==
    /\ app_pc = "join"
    /\ reader_handle = "Some" => join_returns(reader_pc)
    /\ reader_handle' = "None"
    /\ app_pc' = "finished"
    /\ UNCHANGED <<grid, term, pty_read, reader_pc, data, channel, pending_events,
                   pty_data_buffer, fed, redraw_requested, more_shaping_work,
                   exited, child_killed, app, renderer, ui>>

PipeSpecInit ==
    /\ PipeInit
    /\ term = TerminalState_new(MaxCols, MaxRows)
    /\ grid = new(1, 1, 0, ConfigFg, ConfigBg)

PipeNext ==
    \/ ReaderRead
    \/ ReaderSend
    \/ ReaderNotify
    \/ UserEvent
    \/ RedrawRequested
    \/ MouseWheel
    \/ WindowResized
    \/ CloseRequested
    \/ AboutToWait
    \/ ExitingKill
    \/ ExitingJoin

SpecPipe == PipeSpecInit /\ [][PipeNext]_vars

\* the reader thread keeps running between its blocking reads, posted events
\* and requested redraws are delivered, and a frame that finds bytes buffered
\* parses at least one chunk before its budget is spent
SpecPipeFair ==
    /\ SpecPipe
    /\ WF_vars(ReaderSend)
    /\ WF_vars(ReaderNotify)
    /\ WF_vars(UserEvent)
    /\ WF_vars(RedrawFrame(1..MaxIter))

\* shutdown: once the child is killed the reader's blocking read returns, the
\* reader thread keeps running between its reads, and App::exiting, called
\* when the event loop has been told to exit, runs to its end
SpecShutdown ==
    /\ SpecPipe
    /\ WF_vars(child_killed /\ ReaderRead)
    /\ WF_vars(ReaderSend)
    /\ WF_vars(ReaderNotify)
    /\ WF_vars(ExitingKill)
    /\ WF_vars(ExitingJoin)

----------------------------------------------------------------------------
(* The stand-alone grid: construction, then any sequence of operations *)

Chars == {"A"}

GridInit ==
    /\ \E cols \in 1..MaxCols, rows \in 1..MaxRows, sb \in 0..MaxScrollback :
           grid = new(cols, rows, sb, ConfigFg, ConfigBg)
    /\ term = TerminalState_new(MaxCols, MaxRows)
    /\ PipeInit

GridPutChar ==
    \E ch \in Chars : grid' = put_char_ex(grid, ch, ConfigFg, ConfigBg, NoFlags, None)

\* the cursor row is capped: below the scroll region line_feed increments cur_y for ever
GridLineFeed == line_feed(grid).cur_y <= MaxCurY /\ grid' = line_feed(grid)

GridScrollUp == \E n \in 0..MaxCount : grid' = scroll_up(grid, n)

GridResize ==
    \E cols \in 1..MaxCols, rows \in 1..MaxRows : grid' = resize(grid, cols, rows)

GridSetCursorPos ==
    \E x \in 0..MaxCols, y \in 0..MaxRows : grid' = set_cursor_pos(grid, x, y)

\* the margins are public fields; they are written as DECSTBM writes them
\* (terminal.rs: top < bottom < rows, then set_cursor_pos(0, 0))
GridSetMargins ==
    \E top \in 0..MaxRows, bottom \in 0..MaxRows :
        /\ top < bottom /\ bottom < grid.rows
        /\ grid' = set_cursor_pos([grid EXCEPT !.scroll_top = top, !.scroll_bottom = bottom], 0, 0)

GridErase ==
    \/ grid' = clear_line(grid)
    \/ grid' = clear_line_to_cursor(grid)
    \/ grid' = clear_line_from_cursor(grid)
    \/ grid' = clear_to_cursor(grid)
    \/ grid' = clear_from_cursor(grid)
    \/ grid' = clear_all(grid)

GridInsertLines == \E n \in 0..MaxCount : grid' = insert_lines(grid, n)

GridDeleteLines == \E n \in 0..MaxCount : grid' = delete_lines(grid, n)

GridInsertChars == \E n \in 0..MaxCount : grid' = insert_chars(grid, n)

GridDeleteChars == \E n \in 0..MaxCount : grid' = delete_chars(grid, n)

GridOp ==
    \/ GridPutChar
    \/ GridLineFeed
    \/ GridScrollUp
    \/ GridResize
    \/ GridSetCursorPos
    \/ GridSetMargins
    \/ GridErase
    \/ GridInsertLines
    \/ GridDeleteLines
    \/ GridInsertChars
    \/ GridDeleteChars

GridNext == GridOp /\ UNCHANGED <<term, pipe>>

SpecGrid == GridInit /\ [][GridNext]_vars

----------------------------------------------------------------------------
(* The terminal: TerminalState::new, then feeds of one parser event each   *)
(* and the UI handlers that lock the terminal                              *)

\* parameter lists of the count-taking sequences: absent, 0, 1, .., MaxCount
CountParams == {<<>>} \cup {<<n>> : n \in 0..MaxCount}

\* parameter lists of CUP: absent, a row, or a row and a column (1-based)
CupParams ==
    {<<>>} \cup {<<r>> : r \in 1..MaxRows}
           \cup {<<r, c>> : r \in {1, MaxRows}, c \in {1, MaxCols}}

\* parameter lists of DECSTBM: absent, top only, or top and bottom (1-based)
StbmParams ==
    {<<>>} \cup {<<a>> : a \in 1..2}
           \cup {<<a, b>> : a \in 1..2, b \in 2..MaxRows}

TermInit ==
    /\ \E sz \in Sizes : term = TerminalState_new(sz[1], sz[2])
    /\ grid = new(1, 1, 0, ConfigFg, ConfigBg)
    /\ PipeInit

FeedPrint == \E c \in Chars : term' = print(feed_begin(term), c)

\* the cursor row is capped: below the scroll region line_feed increments cur_y for ever
FeedExecute ==
    \E byte \in {"LF", "IND", "NEL", "CR", "BS"} :
        /\ active_grid(execute(feed_begin(term), byte)).cur_y <= MaxCurY
        /\ term' = execute(feed_begin(term), byte)

FeedCursorMove ==
    \E final_byte \in {"A", "B", "C", "D"}, params \in CountParams :
        term' = csi_dispatch(feed_begin(term), params, "", final_byte)

FeedCup == \E params \in CupParams : term' = csi_dispatch(feed_begin(term), params, "", "H")

FeedDecstbm == \E params \in StbmParams : term' = csi_dispatch(feed_begin(term), params, "", "r")

FeedDecset1049 == term' = csi_dispatch(feed_begin(term), <<1049>>, "?", "h")

FeedDecrst1049 == term' = csi_dispatch(feed_begin(term), <<1049>>, "?", "l")

FeedCursorVisible ==
    \E final_byte \in {"h", "l"} : term' = csi_dispatch(feed_begin(term), <<25>>, "?", final_byte)

FeedErase ==
    \E final_byte \in {"J", "K"}, params \in {<<>>, <<0>>, <<1>>, <<2>>} :
        term' = csi_dispatch(feed_begin(term), params, "", final_byte)

FeedEdit ==
    \E final_byte \in {"X", "@", "L", "M", "P"}, params \in CountParams :
        term' = csi_dispatch(feed_begin(term), params, "", final_byte)

\* WindowEvent::MouseWheel: term.scroll_viewport(-scroll_lines)
ScrollViewport == \E delta \in {-1, 1} : term' = scroll_viewport(term, delta)

\* WindowEvent::Resized
Resized == \E sz \in Sizes : term' = window_resized(term, sz[1], sz[2])

\* the end of Renderer::render: term.clear_dirty()
Render == term' = clear_dirty(term)

\* the primary screen alone: every event but the screen switch
Next ==
    /\ \/ FeedPrint
       \/ FeedExecute
       \/ FeedCursorMove
       \/ FeedCup
       \/ FeedDecstbm
       \/ FeedCursorVisible
       \/ FeedErase
       \/ FeedEdit
       \/ ScrollViewport
       \/ Resized
       \/ Render
    /\ UNCHANGED <<grid, pipe>>

Spec == TermInit /\ [][Next]_vars

\* both screens: the primary screen is written line by line, the alternate
\* screen receives every event
FeedLineFeed ==
    /\ active_grid(execute(feed_begin(term), "LF")).cur_y <= MaxCurY
    /\ term' = execute(feed_begin(term), "LF")

AltNext ==
    /\ \/ term.active_screen = "Normal" /\ FeedPrint
       \/ term.active_screen = "Normal" /\ FeedLineFeed
       \/ term.active_screen = "Alternate" /\ FeedPrint
       \/ term.active_screen = "Alternate" /\ FeedExecute
       \/ term.active_screen = "Alternate" /\ FeedCursorMove
       \/ term.active_screen = "Alternate" /\ FeedCup
       \/ term.active_screen = "Alternate" /\ FeedDecstbm
       \/ term.active_screen = "Alternate" /\ FeedErase
       \/ term.active_screen = "Alternate" /\ FeedEdit
       \/ FeedDecset1049
       \/ FeedDecrst1049
       \/ ScrollViewport
       \/ Resized
    /\ UNCHANGED <<grid, pipe>>

SpecAlt == TermInit /\ [][AltNext]_vars

\* both screens with rendered frames, one column wide
FrameSizes == {<<1, FrameRows>>, <<1, FrameRows - 1>>}

FrameInit ==
    /\ \E sz \in FrameSizes : term = TerminalState_new(sz[1], sz[2])
    /\ grid = new(1, 1, 0, ConfigFg, ConfigBg)
    /\ PipeInit

FrameResized == \E sz \in FrameSizes : term' = window_resized(term, sz[1], sz[2])

FrameNext ==
    /\ \/ FeedPrint
       \/ FeedExecute
       \/ FeedCup
       \/ FeedDecstbm
       \/ FeedErase
       \/ FeedEdit
       \/ FeedDecset1049
       \/ FeedDecrst1049
       \/ ScrollViewport
       \/ FrameResized
       \/ Render
    /\ UNCHANGED <<grid, pipe>>

SpecFrame == FrameInit /\ [][FrameNext]_vars

\* hyperlinks: OSC 8 and printing on a one-column screen
Urls == {"a", "b", "c"}

\* the fields of an OSC: OSC 8 with a URL or none, OSC 8 cut short, another OSC
OscParams ==
    {<<"8", "", u>> : u \in Urls \cup {""}} \cup {<<"8">>, <<"8", "">>, <<"0", "title">>}

FeedOsc == \E params \in OscParams : term' = osc_dispatch(feed_begin(term), params)

LinkNext ==
    /\ \/ FeedPrint
       \/ FeedExecute
       \/ FeedOsc
       \/ FrameResized
    /\ UNCHANGED <<grid, pipe>>

SpecLink == FrameInit /\ [][LinkNext]_vars

\* the mouse: pixel positions inside and beyond the grid
MousePositions == {<<0, 0>>, <<CellPx + 1, CellPx>>, <<0, 2 * CellPx + 1>>}

\* WindowEvent::ModifiersChanged
ModifiersChanged ==
    /\ \E b \in BOOLEAN : app' = [app EXCEPT !.link_modifier = b]
    /\ UNCHANGED <<grid, term, pty_read, reader_pc, data, channel, pending_events,
                   pty_data_buffer, fed, redraw_requested, more_shaping_work,
                   exited, shutdown, renderer, ui>>

\* WindowEvent::MouseInput, left button, ElementState::Pressed
MousePressed ==
    /\ app' = press(app, term)
    /\ term' = IF opens_link(app, term) THEN term ELSE [term EXCEPT !.is_dirty = TRUE]
    /\ redraw_requested' = (redraw_requested \/ ~opens_link(app, term))
    /\ UNCHANGED <<grid, pty_read, reader_pc, data, channel, pending_events,
                   pty_data_buffer, fed, more_shaping_work, exited, shutdown, renderer, ui>>

\* WindowEvent::MouseInput, left button, ElementState::Released
MouseReleased ==
    /\ app' = release(app, term)
    /\ UNCHANGED <<grid, term, pty_read, reader_pc, data, channel, pending_events,
                   pty_data_buffer, fed, redraw_requested, more_shaping_work,
                   exited, shutdown, renderer, ui>>

\* WindowEvent::CursorMoved
CursorMoved ==
    /\ \E pos \in MousePositions : app' = cursor_moved(app, term, pos)
    /\ term' = IF app.is_mouse_dragging THEN [term EXCEPT !.is_dirty = TRUE] ELSE term
    /\ redraw_requested' = (\/ redraw_requested
                            \/ app.is_mouse_dragging
                            \/ app'.hovered_link_id # app.hovered_link_id)
    /\ UNCHANGED <<grid, pty_read, reader_pc, data, channel, pending_events,
                   pty_data_buffer, fed, more_shaping_work, exited, shutdown, renderer, ui>>

\* OSC 8 opening the link "a" or closing the link
FeedLink ==
    \E url \in {"a", ""} : term' = osc_dispatch(feed_begin(term), <<"8", "", url>>)

\* the mouse over a one-column screen with linked and plain text
MouseNext ==
    \/ /\ \/ FeedPrint
          \/ FeedLink
          \/ FrameResized
          \/ Render
       /\ UNCHANGED <<grid, pipe>>
    \/ ModifiersChanged
    \/ MousePressed
    \/ MouseReleased
    \/ CursorMoved

SpecMouse == FrameInit /\ [][MouseNext]_vars

-----------------------------------------------------------------------------
(* The terminal mutex in the UI thread's event handlers.  A handler is the *)
(* sequence of its steps in source order: "lock" is a call of              *)
(* term_arc.lock(), "unlock" the point where the guard it returned goes    *)
(* out of scope, any other step is the work done in between.  The reader   *)
(* thread never takes the mutex, so the UI thread is its only user.        *)

\* a frame that keeps the guard of the parse block while it locks for render
redraw_requested_one_guard == <<"lock", "feed", "lock", "render", "unlock", "unlock">>

\* WindowEvent::RedrawRequested: the inner block with the parse loop and the
\* shaper, whose guard is dropped at its closing brace, then render
redraw_requested_steps == <<"lock", "feed", "unlock", "lock", "render", "unlock">>

\* WindowEvent::MouseInput, left button pressed
mouse_pressed_steps(a, t) ==
    LET drag == <<"press", "lock", "mark_dirty", "unlock">>
    IN IF ~a.link_modifier THEN drag
       ELSE IF opens_link(a, t) THEN <<"lock", "open", "unlock">>
       ELSE <<"lock", "get_link_at", "unlock">> \o drag

\* App::get_selected_text: returns before the lock without a selection
get_selected_text_steps(a) ==
    IF a.selection_start = None \/ a.selection_end = None THEN <<>>
    ELSE <<"lock", "get_selected_text", "unlock">>

\* WindowEvent::MouseInput, left button released
mouse_released_steps(a) == <<"end_drag">> \o get_selected_text_steps(a) \o <<"set_text">>

\* WindowEvent::KeyboardInput, the copy shortcut
keyboard_copy_steps(a) == get_selected_text_steps(a) \o <<"set_text">>

\* WindowEvent::CursorMoved: update_hover_state, then the drag
cursor_moved_steps(a) ==
    <<"lock", "update_hover_state", "unlock">>
        \o (IF a.is_mouse_dragging
            THEN <<"selection_end", "lock", "mark_dirty", "unlock">>
            ELSE <<>>)

\* WindowEvent::MouseWheel
mouse_wheel_steps == <<"lock", "scroll_viewport", "unlock">>

\* WindowEvent::Resized
resized_steps == <<"lock", "resize", "unlock">>

\* the handler entered for an event, with the steps it will take
handler_steps(event, a, t) ==
    CASE event = "RedrawRequested" -> redraw_requested_steps
      [] event = "MousePressed" -> mouse_pressed_steps(a, t)
      [] event = "MouseReleased" -> mouse_released_steps(a)
      [] event = "KeyboardCopy" -> keyboard_copy_steps(a)
      [] event = "CursorMoved" -> cursor_moved_steps(a)
      [] event = "MouseWheel" -> mouse_wheel_steps
      [] event = "Resized" -> resized_steps

WindowEvents ==
    {"RedrawRequested", "MousePressed", "MouseReleased", "KeyboardCopy",
     "CursorMoved", "MouseWheel", "Resized"}

\* the next step of the handler the UI thread is in
next_step == IF ui.rest = <<>> THEN "return" ELSE Head(ui.rest)

\* EventLoop: an event is delivered to App::window_event; CursorMoved stores
\* the position before anything else
WindowEvent ==
    /\ ui.handler = "idle"
    /\ \E event \in WindowEvents :
          /\ ui' = [handler |-> event, rest |-> handler_steps(event, app, term),
                    guards |-> 0]
          /\ IF event = "CursorMoved"
             THEN \E pos \in MousePositions : app' = [app EXCEPT !.last_mouse_pos = pos]
             ELSE app' = app
    /\ UNCHANGED <<grid, term, pty_read, reader_pc, data, channel, pending_events,
                   pty_data_buffer, fed, redraw_requested, more_shaping_work,
                   exited, shutdown, renderer>>

\* Mutex::lock: std's mutex is not reentrant, so the call returns only while
\* the thread holds no guard of it
MutexLock ==
    /\ next_step = "lock"
    /\ ui.guards = 0
    /\ ui' = [ui EXCEPT !.rest = Tail(@), !.guards = @ + 1]
    /\ UNCHANGED <<grid, term, pty_read, reader_pc, data, channel, pending_events,
                   pty_data_buffer, fed, redraw_requested, more_shaping_work,
                   exited, shutdown, app, renderer>>

\* a MutexGuard goes out of scope
MutexUnlock ==
    /\ next_step = "unlock"
    /\ ui' = [ui EXCEPT !.rest = Tail(@), !.guards = @ - 1]
    /\ UNCHANGED <<grid, term, pty_read, reader_pc, data, channel, pending_events,
                   pty_data_buffer, fed, redraw_requested, more_shaping_work,
                   exited, shutdown, app, renderer>>

\* the work of a handler between its lock calls
HandlerStep ==
    /\ next_step \notin {"lock", "unlock", "return"}
    /\ ui' = [ui EXCEPT !.rest = Tail(@)]
    /\ CASE next_step = "feed" ->
              /\ FeedPrint \/ FeedLink \/ term' = term
              /\ UNCHANGED <<app, redraw_requested>>
         [] next_step = "render" ->
              /\ Render
              /\ redraw_requested' = FALSE
              /\ app' = app
         [] next_step = "resize" ->
              /\ FrameResized
              /\ UNCHANGED <<app, redraw_requested>>
         [] next_step = "scroll_viewport" ->
              /\ \E delta \in {-1, 1} : term' = scroll_viewport(term, delta)
              /\ redraw_requested' = TRUE
              /\ app' = app
         [] next_step = "mark_dirty" ->
              /\ term' = [term EXCEPT !.is_dirty = TRUE]
              /\ redraw_requested' = TRUE
              /\ app' = app
         [] next_step \in {"press", "open"} ->
              /\ app' = press(app, term)
              /\ UNCHANGED <<term, redraw_requested>>
         [] next_step = "end_drag" ->
              /\ app' = [app EXCEPT !.is_mouse_dragging = FALSE]
              /\ UNCHANGED <<term, redraw_requested>>
         [] next_step = "set_text" ->
              /\ app' = [app EXCEPT !.clipboard = release(app, term).clipboard]
              /\ UNCHANGED <<term, redraw_requested>>
         [] next_step = "update_hover_state" ->
              /\ app' = [app EXCEPT !.hovered_link_id =
                                        cursor_moved(app, term, app.last_mouse_pos)
                                            .hovered_link_id]
              /\ redraw_requested' = (\/ redraw_requested
                                      \/ app'.hovered_link_id # app.hovered_link_id)
              /\ term' = term
         [] next_step = "selection_end" ->
              /\ app' = cursor_moved(app, term, app.last_mouse_pos)
              /\ UNCHANGED <<term, redraw_requested>>
         [] next_step \in {"get_link_at", "get_selected_text"} ->
              UNCHANGED <<term, app, redraw_requested>>
    /\ UNCHANGED <<grid, pty_read, reader_pc, data, channel, pending_events,
                   pty_data_buffer, fed, more_shaping_work, exited, shutdown, renderer>>

\* the handler returns to the event loop
HandlerReturn ==
    /\ ui.handler # "idle"
    /\ next_step = "return"
    /\ ui' = Idle
    /\ UNCHANGED <<grid, term, pty_read, reader_pc, data, channel, pending_events,
                   pty_data_buffer, fed, redraw_requested, more_shaping_work,
                   exited, shutdown, app, renderer>>

\* the UI thread alone: one event at a time, each handler run to its end
LockNext ==
    \/ WindowEvent
    \/ MutexLock
    \/ MutexUnlock
    \/ HandlerStep
    \/ HandlerReturn
    \/ (ui.handler = "idle" /\ ModifiersChanged)

\* a thread that can take a step takes it
SpecLock ==
    /\ FrameInit
    /\ [][LockNext]_vars
    /\ WF_vars(MutexLock \/ MutexUnlock \/ HandlerStep \/ HandlerReturn)

\* SGR parameter lists fed to the terminal: every list of up to MaxSgrLen of
\* SgrValues, and the true-colour forms 38;2;r;g;b and 48;2;r;g;b with a tail
SgrValues == {<<0>>, <<1>>, <<2>>, <<5>>, <<38>>, <<41>>, <<4, 3>>}

SgrTrueColour ==
    {<<<<n>>, <<2>>, <<r>>, <<g>>, <<b>>>> \o tail :
        n \in {38, 48}, r \in {0, 5}, g \in {0, 5}, b \in {0, 5},
        tail \in {<<>>, <<<<0>>>>, <<<<5>>>>}}

SgrParams == UNION {[1..k -> SgrValues] : k \in 0..MaxSgrLen} \cup SgrTrueColour

FeedSgr == \E params \in SgrParams : term' = csi_sgr(feed_begin(term), params)

SgrNext == FeedSgr /\ UNCHANGED <<grid, pipe>>

SpecSgr == TermInit /\ [][SgrNext]_vars

\* the rendered frame with its decorations: the primary screen one column
\* wide, plain and underlined text, line feeds, the cursor shown and hidden
\* (SGR 4; the undercurl of SGR 4:3 is staged by the same code)
FeedUnderline ==
    \E params \in {<<<<4>>>>} :
        term' = csi_sgr(feed_begin(term), params)

\* App::window_event, RedrawRequested: Renderer::render, which prepares the
\* decorations of the frame and ends with term.clear_dirty()
RenderFrame ==
    /\ Cardinality(DOMAIN renderer.bg_cache) < MaxCachedRows
    /\ renderer' = caches_of(prepare_decorations(renderer, term, selection_of(app),
                                                 app.hovered_link_id))
    /\ term' = clear_dirty(term)
    /\ UNCHANGED <<grid, pty_read, reader_pc, data, channel, pending_events,
                   pty_data_buffer, fed, redraw_requested, more_shaping_work,
                   exited, shutdown, app, ui>>

RenderNext ==
    \/ /\ \/ FeedPrint
          \/ FeedLineFeed
          \/ FeedCursorVisible
          \/ FeedUnderline
          \/ FrameResized
       /\ UNCHANGED <<grid, pipe>>
    \/ RenderFrame

SpecRender == FrameInit /\ [][RenderNext]_vars

\* 256-colour selections fed to the terminal: every code as the foreground,
\* and as the background one code from each range of ansi_256_to_rgb
ColourCodes == 0..255

BgColourCodes == {0, 7, 8, 15, 16, 231, 232, 255}

FeedColour256 ==
    \/ \E n \in ColourCodes :
           term' = csi_sgr(feed_begin(term), <<<<38>>, <<5>>, <<n>>>>)
    \/ \E n \in BgColourCodes :
           term' = csi_sgr(feed_begin(term), <<<<48>>, <<5>>, <<n>>>>)

ColourNext == FeedColour256 /\ UNCHANGED <<grid, pipe>>

SpecColour == TermInit /\ [][ColourNext]_vars

----------------------------------------------------------------------------
(* Observations used by the properties *)

\* the scrollback prefix of lines, oldest line expected first
Scrollback(g) == SubSeq(g.lines, 1, scrollback_len(g))

\* the viewport suffix of lines
Viewport(g) == SubSeq(g.lines, scrollback_len(g) + 1, Len(g.lines))

\* the last n elements of a sequence
LastN(s, n) == SubSeq(s, Max(1, Len(s) - n + 1), Len(s))

\* the grid holds all of its rows (it has been through a resize that rebuilt it)
Populated(g) == Len(g.lines) >= g.rows

IsBlankRow(g, row) ==
    /\ Len(row.cells) = g.cols
    /\ \A i \in 1..Len(row.cells) : row.cells[i] = BlankCell(g.default_fg, g.default_bg)

----------------------------------------------------------------------------
(* C1: in every reachable state of a grid the last `rows` entries of lines *)
(* are the viewport (lines.len() >= rows), every viewport row has exactly  *)
(* cols cells, and scrollback_len() = lines.len() - rows is at most        *)
(* scrollback_capacity.                                                    *)
C1_GridShape ==
    /\ Len(grid.lines) >= grid.rows
    /\ Len(Viewport(grid)) = grid.rows
    /\ \A i \in 1..Len(Viewport(grid)) : Len(Viewport(grid)[i].cells) = grid.cols
    /\ scrollback_len(grid) = Len(grid.lines) - grid.rows
    /\ scrollback_len(grid) <= grid.scrollback_capacity

\* what does hold: lines never grows beyond rows + capacity, rows keep cols cells,
\* and a grid that holds all its rows keeps holding them
C1_Weak ==
    /\ Len(grid.lines) <= grid.rows + grid.scrollback_capacity
    /\ \A i \in 1..Len(grid.lines) : Len(grid.lines[i].cells) = grid.cols
C1_StaysPopulated == [][Populated(grid) => Populated(grid')]_vars

(* C2: immediately after ScreenGrid::new(cols, rows, scrollback, fg, bg)   *)
(* the grid holds exactly `rows` blank rows of `cols` default cells, so    *)
(* visible_row(y) is Some for every y < rows, the cursor is at (0,0), the  *)
(* margins are (0, rows-1) and the scrollback is empty.                    *)
C2_FreshGrid ==
    grid = new(grid.cols, grid.rows, grid.scrollback_capacity, ConfigFg, ConfigBg)
    => /\ Len(grid.lines) = grid.rows
       /\ \A y \in 0..(grid.rows - 1) :
              has_visible_row(grid, y) /\ IsBlankRow(grid, visible_row(grid, y))
       /\ grid.cur_x = 0 /\ grid.cur_y = 0
       /\ grid.scroll_top = 0 /\ grid.scroll_bottom = grid.rows - 1
       /\ scrollback_len(grid) = 0

(* C4: deferred wrap. A character written while the latch is clear goes to *)
(* the cursor cell without scrolling and moves cur_x right by one, or sets *)
(* the latch at the last column (so N <= cols characters from column 0     *)
(* leave cur_x = N, or cols-1 with the latch set). A character written     *)
(* while the latch is set first makes one line feed, is stored at column 0 *)
(* of the new cursor row, leaves the completed row unchanged, and leaves   *)
(* cur_x = 1 with the latch clear.                                         *)
C4_InScope(g) == Populated(g) /\ g.cur_y < g.rows /\ g.cols >= 2

C4_WithinRow(g, h) ==
    /\ h.cur_y = g.cur_y
    /\ Len(h.lines) = Len(g.lines)
    /\ \A y \in 0..(g.rows - 1) : y # g.cur_y => visible_row(h, y) = visible_row(g, y)
    /\ \A x \in 0..(g.cols - 1) :
           x # g.cur_x => visible_row(h, g.cur_y).cells[x + 1] = visible_row(g, g.cur_y).cells[x + 1]
    /\ visible_row(h, g.cur_y).cells[g.cur_x + 1].ch \in Chars
    /\ IF g.cur_x + 1 < g.cols
       THEN h.cur_x = g.cur_x + 1 /\ ~h.deferred_wrap
       ELSE h.cur_x = g.cols - 1 /\ h.deferred_wrap

C4_Wrapped(g, h) ==
    /\ IF g.cur_y = g.scroll_bottom
       THEN /\ h.cur_y = g.cur_y
            /\ g.cur_y > g.scroll_top => visible_row(h, g.cur_y - 1) = visible_row(g, g.cur_y)
       ELSE /\ h.cur_y = g.cur_y + 1
            /\ visible_row(h, g.cur_y) = visible_row(g, g.cur_y)
    /\ has_visible_row(h, h.cur_y)
    /\ visible_row(h, h.cur_y).cells[1].ch \in Chars
    /\ h.cur_x = 1
    /\ ~h.deferred_wrap

C4_NoWrapPart ==
    [][GridPutChar /\ C4_InScope(grid) /\ ~grid.deferred_wrap => C4_WithinRow(grid, grid')]_vars

C4_DeferredWrap ==
    [][GridPutChar /\ C4_InScope(grid)
       => IF grid.deferred_wrap THEN C4_Wrapped(grid, grid') ELSE C4_WithinRow(grid, grid')]_vars

(* C5: scrollback eviction. A line that scrolls off the top of the viewport *)
(* becomes the newest scrollback line; the scrollback keeps the most        *)
(* recently scrolled-off lines, at most scrollback_capacity of them, in     *)
(* their original top-to-bottom order (oldest at the front), and the oldest *)
(* lines are the ones discarded.                                            *)
C5_ScrollsOffTop(g) ==
    /\ Populated(g)
    /\ ~g.deferred_wrap
    /\ g.cur_y = g.scroll_bottom
    /\ g.scroll_top = 0

C5_Eviction ==
    [][GridLineFeed /\ C5_ScrollsOffTop(grid)
       => Scrollback(grid') =
              LastN(Scrollback(grid) \o <<visible_row(grid, 0)>>, grid.scrollback_capacity)]_vars

\* what the code keeps instead: the new line goes to the far end of the history
\* and is the first to be evicted, so the oldest lines stay, newest first
C5_CodeKeeps ==
    [][GridLineFeed /\ C5_ScrollsOffTop(grid)
       => Scrollback(grid') =
              LastN(<<visible_row(grid, 0)>> \o Scrollback(grid), grid.scrollback_capacity)]_vars

----------------------------------------------------------------------------
(* The terminal: cursor bounds and the two screens *)

\* one call of feed carrying one event
FeedAny ==
    \/ FeedPrint
    \/ FeedExecute
    \/ FeedCursorMove
    \/ FeedCup
    \/ FeedDecstbm
    \/ FeedCursorVisible
    \/ FeedErase
    \/ FeedEdit
    \/ FeedDecset1049
    \/ FeedDecrst1049

\* the cells of the rows of a grid, without the rows' dirty flags
CellsOf(g) == [i \in 1..Len(g.lines) |-> g.lines[i].cells]

\* C3: after any sequence of events fed to the terminal the cursor of the
\* active grid satisfies 0 <= cur_x < cols and 0 <= cur_y < rows, also after
\* line feeds executed while the cursor lies outside the scroll region.
C3_CursorInBounds ==
    LET g == active_grid(term)
    IN /\ 0 <= g.cur_x /\ g.cur_x < g.cols
       /\ 0 <= g.cur_y /\ g.cur_y < g.rows

\* the column part of C3 alone
C3_ColumnInBounds ==
    LET g == active_grid(term) IN 0 <= g.cur_x /\ g.cur_x < g.cols

\* DECSET 1049 switches to the alternate screen and every row of the
\* alternate grid is blank afterwards
C9_EnterBlanks ==
    FeedDecset1049 =>
        /\ term'.active_screen = "Alternate"
        /\ \A i \in 1..Len(term'.alternate_grid.lines) :
               IsBlankRow(term'.alternate_grid, term'.alternate_grid.lines[i])

\* a feed while the alternate screen is active leaves the cells, the cursor
\* and the scrollback of the primary grid as they were
C9_PrimaryUntouched ==
    (term.active_screen = "Alternate" /\ FeedAny) =>
        /\ CellsOf(term'.normal_grid) = CellsOf(term.normal_grid)
        /\ term'.normal_grid.cur_x = term.normal_grid.cur_x
        /\ term'.normal_grid.cur_y = term.normal_grid.cur_y
        /\ Scrollback(term'.normal_grid) = Scrollback(term.normal_grid)

\* DECRST 1049 switches back to the primary screen, cursor visible, full
\* redraw requested
C9_LeaveRestores ==
    FeedDecrst1049 =>
        /\ term'.active_screen = "Normal"
        /\ CellsOf(term'.normal_grid) = CellsOf(term.normal_grid)
        /\ term'.normal_grid.cur_x = term.normal_grid.cur_x
        /\ term'.normal_grid.cur_y = term.normal_grid.cur_y
        /\ term'.cursor_visible
        /\ term'.normal_grid.full_redraw_needed

\* C9: alternate-screen isolation: DECSET 1049 enters the alternate screen
\* and blanks the alternate grid, feeding while it is active leaves the
\* primary grid's cells, cursor and scrollback unchanged, and DECRST 1049
\* returns to the primary screen as it was, with cursor_visible and
\* full_redraw_needed set.
C9_Isolation == [][C9_EnterBlanks /\ C9_PrimaryUntouched /\ C9_LeaveRestores]_vars

\* the parts of C9 about the primary grid alone
C9_PrimaryKept == [][C9_PrimaryUntouched /\ C9_LeaveRestores]_vars

\* C10: while the alternate screen is active no step adds a row to a
\* scrollback (the alternate grid's scrollback_len stays 0) and
\* scroll_viewport leaves scroll_offset and is_dirty unchanged for every delta.
C10_AlternateNoScrollback ==
    [][term.active_screen = "Alternate" =>
          /\ scrollback_len(term.alternate_grid) = 0
          /\ scrollback_len(term'.alternate_grid) = 0
          /\ scrollback_len(term'.normal_grid) <= scrollback_len(term.normal_grid)
          /\ \A delta \in {-1, 1} :
                 /\ scroll_viewport(term, delta).scroll_offset = term.scroll_offset
                 /\ scroll_viewport(term, delta).is_dirty = term.is_dirty]_vars

\* the alternate screen is active after a rendered frame, the primary grid
\* holds scrollback the viewport could move into, and the alternate grid has
\* scrolled a printed row to its top with the cursor on the bottom margin
C10_Witness ==
    /\ term.active_screen = "Alternate"
    /\ ~term.is_dirty
    /\ scrollback_len(term.normal_grid) > 0
    /\ Populated(term.alternate_grid)
    /\ term.alternate_grid.rows > 1
    /\ term.alternate_grid.cur_y = term.alternate_grid.scroll_bottom
    /\ ~IsBlankRow(term.alternate_grid, visible_row(term.alternate_grid, 0))

----------------------------------------------------------------------------
(* The byte pipeline: reader thread -> channel -> pty_data_buffer -> parser *)

\* the bytes the reader thread has read, in the order read
BytesRead == [i \in 1..pty_read |-> i]

\* the bytes sent on the channel so far
Sent == Len(fed) + Len(pty_data_buffer) + Len(Flatten(channel))

\* C6: the bytes passed to feed, in call order, are at every moment a prefix
\* of the bytes read by the reader thread, and the bytes on their way (in the
\* buffer, in the channel, in the reader's hand) are the rest in order: no
\* byte is lost, duplicated or reordered.
C6_ByteOrder ==
    /\ Len(fed) <= pty_read
    /\ fed = SubSeq(BytesRead, 1, Len(fed))
    /\ fed \o pty_data_buffer \o Flatten(channel) \o data = BytesRead

\* bytes have been fed while others wait in the buffer, in the channel and
\* in the reader's hand
C6_Witness ==
    /\ fed # <<>>
    /\ pty_data_buffer # <<>>
    /\ channel # <<>>
    /\ data # <<>>

\* C7: at the end of every RedrawRequested frame, if pty_data_buffer is
\* non-empty or the shaper answered that more work remains, another redraw
\* is requested.
C7_RedrawAgain ==
    [][RedrawRequested =>
          ((pty_data_buffer' # <<>> \/ more_shaping_work') => redraw_requested')]_vars

\* a frame has parsed every buffered byte, the shaper has answered that more
\* work remains, and a redraw is pending
C7_Witness ==
    /\ fed # <<>>
    /\ pty_data_buffer = <<>>
    /\ channel = <<>>
    /\ pending_events = 0
    /\ more_shaping_work
    /\ redraw_requested

\* C8: bytes are never left in pty_data_buffer without a pending redraw, and
\* in a run whose event loop keeps running (so that posted events and
\* requested redraws are delivered) every byte sent on the channel is
\* eventually fed to the parser and pty_data_buffer is eventually empty for
\* good.
C8_Draining ==
    /\ [](pty_data_buffer # <<>> => redraw_requested)
    /\ ([]~exited) =>
           /\ \A n \in 1..MaxBytes : (Sent >= n) ~> (Len(fed) >= n)
           /\ <>[](pty_data_buffer = <<>>)

\* the reader has read every byte and stopped, the event loop is running,
\* and every byte has been fed
C8_Witness ==
    /\ reader_pc = "done"
    /\ ~exited
    /\ pty_read = MaxBytes
    /\ Len(fed) = MaxBytes
    /\ pty_data_buffer = <<>>

----------------------------------------------------------------------------
(* Hyperlinks *)

\* the registry maps the ids 1..k to k pairwise distinct non-empty URLs and
\* next_link_id is k + 1
LinkRegistryShape ==
    LET k == Cardinality(DOMAIN term.links)
    IN /\ DOMAIN term.links = 1..k
       /\ \A i, j \in 1..k : term.links[i] = term.links[j] => i = j
       /\ \A i \in 1..k : term.links[i] # ""
       /\ term.next_link_id = k + 1

\* no entry is removed or overwritten; an OSC 8 with a URL already present
\* reuses its id, one with a new URL allocates the next id for it
LinkRegistryStep ==
    /\ \A id \in DOMAIN term.links :
           id \in DOMAIN term'.links /\ term'.links[id] = term.links[id]
    /\ \A u \in Urls :
           term' = osc_dispatch(feed_begin(term), <<"8", "", u>>) =>
               IF u \in LinkUrls(term.links)
               THEN /\ term'.links = term.links
                    /\ term'.current_link_id # None
                    /\ term.links[term'.current_link_id[1]] = u
               ELSE /\ DOMAIN term'.links = DOMAIN term.links \cup {term.next_link_id}
                    /\ term'.links[term.next_link_id] = u
                    /\ term'.current_link_id = Some(term.next_link_id)
                    /\ \A id \in DOMAIN term.links : id < term.next_link_id

\* C11: after any sequence of OSC 8 the registry maps ids 1..k to k pairwise
\* distinct URLs, ids are assigned in increasing order of first appearance,
\* next_link_id = k + 1, no entry is removed or overwritten, and opening a
\* URL already present reuses its id.
C11_LinkRegistry == [](LinkRegistryShape) /\ [][LinkRegistryStep]_vars

\* three URLs are registered and the first one has been opened again
C11_Witness ==
    /\ Cardinality(DOMAIN term.links) = 3
    /\ term.next_link_id = 4
    /\ term.current_link_id = Some(1)

\* the column put_char_ex wrote, read back from the grid it left
WrittenX(g) == IF g.deferred_wrap THEN g.cur_x ELSE g.cur_x - 1

\* an OSC 8 with a URL makes the id of that URL current, one with an empty
\* URL makes no link current, and nothing else changes the current link
LinkScopeStep ==
    /\ \A u \in Urls :
           term' = osc_dispatch(feed_begin(term), <<"8", "", u>>) =>
               /\ term'.current_link_id # None
               /\ term'.links[term'.current_link_id[1]] = u
    /\ term' = osc_dispatch(feed_begin(term), <<"8", "", "">>) =>
           term'.current_link_id = None
    /\ term'.current_link_id # term.current_link_id =>
           \E u \in Urls \cup {""} : term' = osc_dispatch(feed_begin(term), <<"8", "", u>>)

\* a print stores the current link in the cell it writes and touches no
\* other cell
LinkPrintStep ==
    \A c \in Chars :
        term' = print(feed_begin(term), c) =>
            LET g == active_grid(term)
                h == active_grid(term')
            IN /\ Len(h.lines) = Len(g.lines)
               /\ \A i \in 1..Len(h.lines) : \A j \in 1..Len(h.lines[i].cells) :
                      h.lines[i].cells[j] # g.lines[i].cells[j] =>
                          /\ h.lines[i].cells[j].ch = c
                          /\ h.lines[i].cells[j].link_id = term.current_link_id
               /\ (Populated(g) /\ g.cur_y < g.rows) =>
                      /\ visible_row(h, h.cur_y).cells[WrittenX(h) + 1].ch = c
                      /\ visible_row(h, h.cur_y).cells[WrittenX(h) + 1].link_id
                             = term.current_link_id

\* C12: every cell printed after an OSC 8 with a non-empty URL and before
\* the next OSC 8 carries the id of that URL, and every cell printed after
\* an OSC 8 with an empty URL carries no link.
C12_LinkScope == [][LinkScopeStep /\ LinkPrintStep]_vars

\* a cell printed inside a link to the second URL and a cell printed after
\* the link was closed
C12_Witness ==
    LET g == active_grid(term)
    IN /\ Populated(g)
       /\ g.rows = 2
       /\ term.current_link_id = None
       /\ visible_row(g, 0).cells[1].ch = "A"
       /\ visible_row(g, 0).cells[1].link_id = Some(2)
       /\ visible_row(g, 1).cells[1].ch = "A"
       /\ visible_row(g, 1).cells[1].link_id = None

----------------------------------------------------------------------------
(* The performer's control bytes and CSI sequences, event by event *)

\* C13: with the deferred-wrap latch set (a full row has been written), CR,
\* BS and CUP each leave deferred_wrap = false, so that the next printable
\* character is written at the resulting cursor position.
C13_LatchCleared ==
    active_grid(term).deferred_wrap =>
        /\ ~active_grid(execute(feed_begin(term), "CR")).deferred_wrap
        /\ ~active_grid(execute(feed_begin(term), "BS")).deferred_wrap
        /\ \A params \in CupParams :
               ~active_grid(csi_dispatch(feed_begin(term), params, "", "H")).deferred_wrap

\* the CUP part of C13 alone
C13_CupClears ==
    \A params \in CupParams :
        ~active_grid(csi_dispatch(feed_begin(term), params, "", "H")).deferred_wrap

\* 0 <= scroll_top < scroll_bottom < rows
MarginsStrict(g) ==
    0 <= g.scroll_top /\ g.scroll_top < g.scroll_bottom /\ g.scroll_bottom < g.rows

\* what the claim asks of DECSTBM with the parameters params on the active
\* grid: top and bottom are 1-based, top defaults to 1 and bottom to rows
StbmAsClaimed(params) ==
    LET g == active_grid(term)
        h == active_grid(csi_dispatch(feed_begin(term), params, "", "r"))
        top == Max(get_param(params, 1), 1)
        bottom == get_param2(params, g.rows)
    IN IF top < bottom /\ bottom <= g.rows
       THEN /\ h.scroll_top = top - 1
            /\ h.scroll_bottom = bottom - 1
            /\ h.cur_x = 0
            /\ h.cur_y = 0
       ELSE /\ h.scroll_top = g.scroll_top
            /\ h.scroll_bottom = g.scroll_bottom
            /\ h.cur_x = g.cur_x
            /\ h.cur_y = g.cur_y

\* C14: in every reachable state of each grid 0 <= scroll_top <
\* scroll_bottom < rows; a DECSTBM whose top and bottom do not satisfy
\* top < bottom <= rows leaves margins and cursor unchanged, a valid one sets
\* the margins and moves the cursor to (0,0).
C14_Margins ==
    /\ MarginsStrict(term.normal_grid)
    /\ MarginsStrict(term.alternate_grid)
    /\ \A params \in StbmParams : StbmAsClaimed(params)

\* C14 for a DECSTBM that carries parameters
C14_WithParams ==
    /\ MarginsStrict(term.normal_grid)
    /\ MarginsStrict(term.alternate_grid)
    /\ \A params \in StbmParams \ {<<>>} : StbmAsClaimed(params)

\* the margins of a grid of any height, one row included
C14_MarginsWeak ==
    \A g \in {term.normal_grid, term.alternate_grid} :
        /\ 0 <= g.scroll_top /\ g.scroll_top <= g.scroll_bottom /\ g.scroll_bottom < g.rows
        /\ g.rows >= 2 => g.scroll_top < g.scroll_bottom

\* a CSI with final byte f behaves the same with parameter 0, with no
\* parameter and with parameter 1
ZeroIsOne(f) ==
    /\ csi_dispatch(feed_begin(term), <<0>>, "", f) = csi_dispatch(feed_begin(term), <<1>>, "", f)
    /\ csi_dispatch(feed_begin(term), <<>>, "", f) = csi_dispatch(feed_begin(term), <<1>>, "", f)

\* C15: for CUU/CUD/CUF/CUB and for ECH, ICH, IL, DL and DCH an explicit
\* parameter 0 and an absent parameter both behave exactly like parameter 1.
C15_ZeroIsOne == \A f \in {"A", "B", "C", "D", "X", "@", "L", "M", "P"} : ZeroIsOne(f)

\* C15 without ECH
C15_AllButEch == \A f \in {"A", "B", "C", "D", "@", "L", "M", "P"} : ZeroIsOne(f)

\* a missing or zero parameter counts as 1
OneBased(v) == IF v = 0 THEN 1 ELSE v

\* the final byte f places the cursor as CUP does and clears the latch
PlacesCursor(f) ==
    \A params \in CupParams \cup {<<0>>, <<0, 0>>, <<MaxRows, 0>>} :
        LET g == active_grid(term)
            h == active_grid(csi_dispatch(feed_begin(term), params, "", f))
            row == OneBased(get_param(params, 1))
            col == OneBased(get_param2(params, 1))
        IN /\ h.cur_x = Min(col - 1, g.cols - 1)
           /\ h.cur_y = Min(row - 1, g.rows - 1)
           /\ ~h.deferred_wrap

\* C16: CUP ('H') and HVP ('f') both take 1-based (row, col), place the
\* cursor at (min(col-1, cols-1), min(row-1, rows-1)) with missing or zero
\* parameters treated as 1, and clear the deferred-wrap latch.
C16_CupHvp == PlacesCursor("H") /\ PlacesCursor("f")

\* C16 for CUP alone
C16_CupOnly == PlacesCursor("H")

\* the active grid after CSI n f
AfterErase(n, f) == active_grid(csi_dispatch(feed_begin(term), <<n>>, "", f))

\* C17: CSI n J with n = 0, 1, 2 performs clear_from_cursor,
\* clear_to_cursor, clear_all and CSI n K with n = 0, 1, 2 performs
\* clear_line_from_cursor, clear_line_to_cursor, clear_line; n = 1 blanks
\* every cell from the start of the screen (J) or of the line (K) up to and
\* including the cursor cell.
C17_EraseDispatch ==
    LET g == active_grid(term)
    IN /\ AfterErase(0, "J") = clear_from_cursor(g)
       /\ AfterErase(1, "J") = clear_to_cursor(g)
       /\ AfterErase(2, "J") = clear_all(g)
       /\ AfterErase(0, "K") = clear_line_from_cursor(g)
       /\ AfterErase(1, "K") = clear_line_to_cursor(g)
       /\ AfterErase(2, "K") = clear_line(g)

\* C17 for n = 0 and n = 2
C17_ZeroAndTwo ==
    LET g == active_grid(term)
    IN /\ AfterErase(0, "J") = clear_from_cursor(g)
       /\ AfterErase(2, "J") = clear_all(g)
       /\ AfterErase(0, "K") = clear_line_from_cursor(g)
       /\ AfterErase(2, "K") = clear_line(g)

----------------------------------------------------------------------------
(* Line insertion and deletion outside the scroll region *)

OutsideRegion(g) == g.cur_y < g.scroll_top \/ g.cur_y > g.scroll_bottom

\* C18: insert_lines(n) and delete_lines(n) with the cursor above
\* scroll_top or below scroll_bottom leave the whole grid state unchanged
\* (cells, cursor, margins, deferred_wrap, dirty flags, full_redraw_needed,
\* scrollback).
C18_OutsideRegionNoOp ==
    OutsideRegion(grid) =>
        \A n \in 0..MaxCount : insert_lines(grid, n) = grid /\ delete_lines(grid, n) = grid

\* outside the region everything but the deferred-wrap latch is unchanged
C18_AllButLatch ==
    OutsideRegion(grid) =>
        \A n \in 0..MaxCount :
            /\ insert_lines(grid, n) = [grid EXCEPT !.deferred_wrap = FALSE]
            /\ delete_lines(grid, n) = [grid EXCEPT !.deferred_wrap = FALSE]


\* the 1-based positions, from i on, of the parameters the SGR loop matches on;
\* the other positions are the arguments 38 and 48 take
RECURSIVE sgr_heads(_, _)
sgr_heads(params, i) ==
    IF i > Len(params) THEN {}
    ELSE {i} \cup sgr_heads(params, i + sgr_consumed(params, i))

LastIsZero(params) == Len(params) > 0 /\ params[Len(params)][1] = 0

\* C19 as stated: after CSI m with an empty parameter list, and after any SGR
\* whose last parameter is 0, the current attributes are the configured defaults
C19_SgrReset ==
    \A params \in SgrParams :
        (params = <<>> \/ LastIsZero(params)) =>
            csi_sgr(term, params).attrs = Attrs_from_config

\* C19: after CSI m with an empty parameter list, and after any SGR whose last
\* parameter is 0 and is not taken as an argument of 38 or 48, the current
\* attributes are the configured defaults
C19_SgrResetHead ==
    \A params \in SgrParams :
        (params = <<>> \/ (LastIsZero(params) /\ Len(params) \in sgr_heads(params, 1))) =>
            csi_sgr(term, params).attrs = Attrs_from_config

\* colours and flags are all set, a closing 0 resets them, and a 0 that is the
\* argument of 38;5 does not
C19_Witness ==
    /\ term.attrs.fg # ConfigFg
    /\ term.attrs.bg # ConfigBg
    /\ term.attrs.flags # NoFlags
    /\ csi_sgr(term, <<<<41>>, <<0>>>>).attrs = Attrs_from_config
    /\ csi_sgr(term, <<<<38>>, <<5>>, <<0>>>>).attrs # Attrs_from_config

\* the values the match of csi_dispatch 'm' has an arm for
SgrKnown ==
    {0, 1, 2, 3, 4, 7, 22, 23, 24, 27, 38, 39, 48, 49}
        \cup (30..37) \cup (40..47) \cup (90..97) \cup (100..107)

UnknownAt(params, i) ==
    /\ i \in sgr_heads(params, 1)
    /\ params[i][1] \notin SgrKnown

\* C20 as stated: an SGR parameter the code does not know, not an argument of
\* 38 or 48, is skipped on its own: the attributes after the list equal the
\* attributes after the same list with that value removed
C20_UnknownSkipped ==
    \A params \in SgrParams : \A i \in 1..Len(params) :
        UnknownAt(params, i) =>
            csi_sgr(term, params).attrs = csi_sgr(term, RemoveAt(params, i - 1)).attrs

\* C20: an unknown SGR parameter, not an argument of 38 or 48, is skipped on
\* its own: with another parameter left the attributes equal those after the
\* list without it, and an unknown parameter alone leaves them unchanged
C20_UnknownSkippedAmongOthers ==
    \A params \in SgrParams : \A i \in 1..Len(params) :
        UnknownAt(params, i) =>
            IF Len(params) = 1
            THEN csi_sgr(term, params).attrs = term.attrs
            ELSE csi_sgr(term, params).attrs = csi_sgr(term, RemoveAt(params, i - 1)).attrs

\* attributes are set, and a list with the unknown 5 between two known values
\* changes them as the list without the 5 does
C20_Witness ==
    /\ term.attrs # Attrs_from_config
    /\ UnknownAt(<<<<1>>, <<5>>, <<41>>>>, 2)
    /\ csi_sgr(term, <<<<1>>, <<5>>, <<41>>>>).attrs # term.attrs
    /\ csi_sgr(term, <<<<1>>, <<5>>, <<41>>>>).attrs = csi_sgr(term, <<<<1>>, <<41>>>>).attrs
    /\ csi_sgr(term, <<<<5>>>>).attrs = term.attrs


\* Renderer::grid_size for a window narrower or lower than one cell: the
\* integer division gives 0 columns or 0 rows
ZeroSizes == {<<0, r>> : r \in 1..MaxRows} \cup {<<c, 0>> : c \in 0..MaxCols}

Grids(t) == <<t.normal_grid, t.alternate_grid>>

\* C21: a window resize that yields cols = 0 or rows = 0 leaves both grids
\* unchanged and causes no arithmetic overflow in scroll_bottom = rows - 1
C21_ResizeToZero ==
    \A sz \in ZeroSizes :
        /\ ~resize_overflows(term.normal_grid, sz[1], sz[2])
        /\ ~resize_overflows(term.alternate_grid, sz[1], sz[2])
        /\ sz[2] > 0 => Grids(window_resized(term, sz[1], sz[2])) = Grids(term)

\* what a resize to zero columns does keep: nothing but the colours, the
\* scrollback capacity and the row count asked for
C21_ZeroColumns ==
    \A r \in 1..MaxRows :
        LET g == window_resized(term, 0, r).normal_grid
        IN /\ g.cols = 0 /\ g.rows = r
           /\ Len(g.lines) = r
           /\ \A i \in 1..r : g.lines[i].cells = <<>>
           /\ g.cur_x = 0 /\ g.cur_y = 0


\* C22: when the read returns 0 or an error the reader thread is done;
\* about_to_wait exits only having joined a finished reader; after a close
\* the child is killed before the join; the UI loop never finishes with the
\* reader unjoined or running; and once the event loop has been told to exit,
\* with the reader's read returning, the join ends and the UI loop finishes
C22_Shutdown ==
    /\ [](app_pc = "finished" => (reader_handle = "None" /\ reader_pc = "done"))
    /\ [](app_pc \in {"join", "finished"} => child_killed)
    /\ [][AboutToWait => (reader_pc = "done" /\ reader_handle' = "None" /\ exited')]_vars
    /\ [][CloseRequested => (exited' /\ app_pc' = "exiting")]_vars
    /\ [][reader_pc = "done" => reader_pc' = "done"]_vars
    /\ exited ~> (app_pc = "finished")

\* the window was closed while the reader thread was still at work: the UI
\* loop has finished, the reader is done, and a batch it sent after the last
\* drain is still in the channel
C22_Witness ==
    /\ app_pc = "finished"
    /\ reader_pc = "done"
    /\ child_killed
    /\ fed # <<>>
    /\ channel # <<>>


ReaderStep == ReaderRead \/ ReaderSend \/ ReaderNotify

\* C23: a step of the reader thread leaves the terminal state as it is and
\* changes nothing shared but the channel and the posted PtyData events;
\* every change of the terminal state is made by a handler of the UI loop
\* (a redraw frame, the mouse wheel, a resize), one critical section each
C23_ReaderIsolation ==
    /\ [][ReaderStep =>
              /\ term' = term
              /\ UNCHANGED <<pty_data_buffer, fed, redraw_requested, more_shaping_work,
                             exited, shutdown>>]_vars
    /\ [][ReaderSend => (channel' = Append(channel, data) /\ pending_events' = pending_events)]_vars
    /\ [][ReaderNotify => (channel' = channel /\ pending_events' \in {pending_events, pending_events + 1})]_vars
    /\ [][ReaderRead => UNCHANGED <<channel, pending_events>>]_vars
    /\ [][term' # term => (RedrawRequested \/ MouseWheel \/ WindowResized)]_vars

\* the reader thread is between its send and its event post while the UI loop
\* has resized the grids, fed bytes and cleared the dirty flag
C23_Witness ==
    /\ reader_pc = "notify"
    /\ channel # <<>>
    /\ fed # <<>>
    /\ term.normal_grid.lines # <<>>
    /\ ~term.is_dirty


\* C24: a left press that opens no link starts a drag with selection_start =
\* selection_end = the pressed cell and marks the terminal dirty; a cursor
\* move never changes selection_start, changes selection_end and marks the
\* terminal dirty while dragging and changes neither otherwise; a release
\* ends the drag and leaves selection_start and selection_end as they were
C24_Selection ==
    /\ [][(MousePressed /\ ~opens_link(app, term)) =>
              /\ app'.is_mouse_dragging
              /\ app'.selection_start = Some(pixels_to_grid(term, app.last_mouse_pos))
              /\ app'.selection_end = app'.selection_start
              /\ term'.is_dirty]_vars
    /\ [][CursorMoved =>
              /\ app'.selection_start = app.selection_start
              /\ app'.is_mouse_dragging = app.is_mouse_dragging
              /\ app.is_mouse_dragging =>
                     /\ app'.selection_end = Some(pixels_to_grid(term, app'.last_mouse_pos))
                     /\ term'.is_dirty
              /\ ~app.is_mouse_dragging =>
                     /\ app'.selection_end = app.selection_end
                     /\ term' = term]_vars
    /\ [][MouseReleased =>
              /\ ~app'.is_mouse_dragging
              /\ app'.selection_start = app.selection_start
              /\ app'.selection_end = app.selection_end]_vars

\* a drag from one cell to another has ended, its text is on the clipboard,
\* and the frame drawn since has cleared the dirty flag
C24_Witness ==
    /\ ~app.is_mouse_dragging
    /\ app.selection_start # None
    /\ app.selection_end # None
    /\ app.selection_end # app.selection_start
    /\ app.clipboard # None
    /\ ~term.is_dirty


\* the cells of viewport row y
RowCells(g, y) == visible_row(g, y).cells

BlankCells(g) == [i \in 1..g.cols |-> BlankCellOf(g)]

\* scroll_up(n) as the region scroll of the viewport: the rows of the region
\* move up by m, the last m rows of the region are blank, the rest stays
ScrolledUp(g, n) ==
    LET m == Min(n, g.scroll_bottom - g.scroll_top + 1)
        g2 == scroll_up(g, n)
    IN /\ Len(g2.lines) >= g2.rows
       /\ \A y \in 0..(g.rows - 1) :
              RowCells(g2, y) =
                  IF y < g.scroll_top \/ y > g.scroll_bottom THEN RowCells(g, y)
                  ELSE IF y <= g.scroll_bottom - m THEN RowCells(g, y + m)
                  ELSE BlankCells(g)

\* C25: scroll_up(n) affects only the scroll region of the viewport, for
\* every n >= 1, for empty and non-empty scrollback and for regions that do
\* not reach the last screen row
C25_ScrollUpRegion ==
    Populated(grid) => \A n \in 1..MaxCount : ScrolledUp(grid, n)

\* where scroll_up(n) is the region scroll: the region is the whole screen
C25_WholeScreen ==
    (Populated(grid) /\ grid.scroll_top = 0 /\ grid.scroll_bottom = grid.rows - 1) =>
        \A n \in 1..MaxCount : ScrolledUp(grid, n)

\* and a region that reaches the last screen row, the scrollback empty
C25_ToLastRowNoScrollback ==
    (Len(grid.lines) = grid.rows /\ grid.scroll_bottom = grid.rows - 1) =>
        \A n \in 1..MaxCount : ScrolledUp(grid, n)


\* C26: scroll_up moves the removed rows into the scrollback only if
\* scroll_top = 0 and scrollback_capacity > 0: with the region starting below
\* row 0, or without capacity, the scrollback is unchanged by the scroll
C26_ScrollbackOnlyFromTop ==
    (Populated(grid) /\ (grid.scroll_top > 0 \/ grid.scrollback_capacity = 0)) =>
        \A n \in 1..MaxCount : Scrollback(scroll_up(grid, n)) = Scrollback(grid)

\* the part that holds: without capacity nothing is kept
C26_NoCapacity ==
    (Populated(grid) /\ grid.scrollback_capacity = 0) =>
        \A n \in 1..MaxCount : Scrollback(scroll_up(grid, n)) = <<>>


WholeScreenRegion(g) == g.scroll_top = 0 /\ g.scroll_bottom = g.rows - 1

\* C27: get_display_row(y, 0) is visible_row(y), and after a line has
\* scrolled off the top of the viewport get_display_row(0, 1) is that line
\* and every older line of the history is one step further back
C27_DisplayRow ==
    Populated(grid) =>
        /\ \A y \in 0..(grid.rows - 1) :
               get_display_row(grid, y, 0) = Some(visible_row(grid, y))
        /\ (WholeScreenRegion(grid) /\ grid.scrollback_capacity > 0) =>
               LET g2 == scroll_up(grid, 1)
               IN /\ get_display_row(g2, 0, 1) = Some(visible_row(grid, 0))
                  /\ \A k \in 1..scrollback_len(grid) :
                         k + 1 <= scrollback_len(g2) =>
                             get_display_row(g2, 0, k + 1) = get_display_row(grid, 0, k)

\* the parts that hold: offset 0 is the viewport, and the first line that
\* scrolls into an empty scrollback is found at offset 1
C27_FirstLine ==
    Populated(grid) =>
        /\ \A y \in 0..(grid.rows - 1) :
               get_display_row(grid, y, 0) = Some(visible_row(grid, y))
        /\ (WholeScreenRegion(grid) /\ grid.scrollback_capacity > 0
                /\ scrollback_len(grid) = 0) =>
               get_display_row(scroll_up(grid, 1), 0, 1) = Some(visible_row(grid, 0))


InsideRegion(g) == g.scroll_top <= g.cur_y /\ g.cur_y <= g.scroll_bottom

\* what the two operations leave alone, and the redraw flag
LinesKept(g, g2) ==
    /\ \A y \in 0..(g.rows - 1) :
           (y < g.cur_y \/ y > g.scroll_bottom) =>
               (has_visible_row(g2, y) /\ visible_row(g2, y) = visible_row(g, y))
    /\ Scrollback(g2) = Scrollback(g)
    /\ g2.cur_x = g.cur_x /\ g2.cur_y = g.cur_y
    /\ g2.full_redraw_needed

\* delete_lines(n): the rows below the deleted ones move up by m, the last m
\* rows of the region are blank
LinesDeleted(g, n) ==
    LET m == Min(n, g.scroll_bottom - g.cur_y + 1)
        g2 == delete_lines(g, n)
    IN /\ LinesKept(g, g2)
       /\ \A y \in g.cur_y..g.scroll_bottom :
              /\ has_visible_row(g2, y)
              /\ visible_row(g2, y) =
                     IF y <= g.scroll_bottom - m THEN visible_row(g, y + m) ELSE BlankOf(g)

\* insert_lines(n): the rows from the cursor row on move down by m, the m
\* rows from the cursor row on are blank
LinesInserted(g, n) ==
    LET m == Min(n, g.scroll_bottom - g.cur_y + 1)
        g2 == insert_lines(g, n)
    IN /\ LinesKept(g, g2)
       /\ \A y \in g.cur_y..g.scroll_bottom :
              /\ has_visible_row(g2, y)
              /\ visible_row(g2, y) =
                     IF y < g.cur_y + m THEN BlankOf(g) ELSE visible_row(g, y - m)

\* C28: with the cursor inside the scroll region, delete_lines(n) and
\* insert_lines(n), n >= 1, move the rows between the cursor row and
\* scroll_bottom by m = min(n, scroll_bottom - cur_y + 1) and blank the
\* vacated rows; rows above the cursor, rows below scroll_bottom, the
\* scrollback and the cursor are unchanged and full_redraw_needed is set
C28_InsertDeleteLines ==
    LET g == active_grid(term)
    IN InsideRegion(g) =>
           \A n \in 1..MaxCount : LinesDeleted(g, n) /\ LinesInserted(g, n)

\* the same for a grid that holds its rows
C28_PopulatedInsertDeleteLines ==
    LET g == active_grid(term)
    IN (InsideRegion(g) /\ Populated(g)) =>
           \A n \in 1..MaxCount : LinesDeleted(g, n) /\ LinesInserted(g, n)


\* viewport row y, where the grid holds it, is marked dirty
RowDirty(g, y) == has_visible_row(g, y) => visible_row(g, y).is_dirty

\* the cursor row changed from g to g2, and g2 has both rows marked dirty
BothRowsDirty(g, g2) ==
    g2.cur_y # g.cur_y => (RowDirty(g2, g.cur_y) /\ RowDirty(g2, g2.cur_y))

\* the terminal after one more event of LF/IND/NEL, CUP, DECSTBM or a print
MovedByOthers(t) ==
    {print(feed_begin(t), c) : c \in Chars}
        \cup {execute(feed_begin(t), byte) : byte \in {"LF", "IND", "NEL"}}
        \cup {csi_dispatch(feed_begin(t), params, "", "H") : params \in CupParams}
        \cup {csi_dispatch(feed_begin(t), params, "", "r") : params \in StbmParams}

\* the terminal after one more CUU or CUD
MovedByCuuCud(t) ==
    {csi_dispatch(feed_begin(t), params, "", final_byte) :
        params \in CountParams, final_byte \in {"A", "B"}}

\* C29: every cursor motion that changes cur_y (LF/IND/NEL, CUU, CUD, CUP,
\* DECSTBM homing, wrap on print) leaves the row the cursor left and the row
\* it arrived on with is_dirty = true
C29_CursorRowsDirty ==
    \A t2 \in MovedByOthers(term) \cup MovedByCuuCud(term) :
        BothRowsDirty(active_grid(term), active_grid(t2))

\* the same without CUU and CUD
C29_AllButCuuCud ==
    \A t2 \in MovedByOthers(term) : BothRowsDirty(active_grid(term), active_grid(t2))


\* the terminal after one more event that writes cells where they are:
\* print, ED, EL, ECH, ICH, DCH
CellWriters(t) ==
    {print(feed_begin(t), c) : c \in Chars}
        \cup {csi_dispatch(feed_begin(t), params, "", final_byte) :
                 params \in {<<>>, <<0>>, <<1>>, <<2>>}, final_byte \in {"J", "K"}}
        \cup {csi_dispatch(feed_begin(t), params, "", final_byte) :
                 params \in CountParams, final_byte \in {"X", "@", "P"}}

\* the terminal after one more event that moves rows and makes blank ones:
\* a line feed (scroll_up at the bottom margin), IL, DL
RowMovers(t) ==
    {execute(feed_begin(t), byte) : byte \in {"LF", "IND", "NEL"}}
        \cup {csi_dispatch(feed_begin(t), params, "", final_byte) :
                 params \in CountParams, final_byte \in {"L", "M"}}

\* C30: an operation that changes a cell of a row leaves the row dirty: a
\* viewport row whose cells differ after print, ED, EL, ECH, ICH or DCH is
\* dirty, and after a scroll, IL or DL every row that is not one of the
\* former rows (a row blanked or created) is dirty
C30_ChangedRowsDirty ==
    LET g == active_grid(term)
    IN /\ \A t2 \in CellWriters(term) : \A y \in 0..(g.rows - 1) :
              (has_visible_row(g, y) /\ RowCells(active_grid(t2), y) # RowCells(g, y)) =>
                  visible_row(active_grid(t2), y).is_dirty
       /\ \A t2 \in RowMovers(term) : \A i \in 1..Len(active_grid(t2).lines) :
              (\A j \in 1..Len(g.lines) : g.lines[j] # active_grid(t2).lines[i]) =>
                  active_grid(t2).lines[i].is_dirty

\* after a rendered frame row 0 has been blanked again and is dirty, while
\* row 1 still holds its text and is clean
C30_Witness ==
    LET g == active_grid(term)
    IN /\ g.rows >= 2 /\ Populated(g)
       /\ ~g.full_redraw_needed
       /\ IsBlankRow(g, visible_row(g, 0)) /\ visible_row(g, 0).is_dirty
       /\ ~IsBlankRow(g, visible_row(g, 1)) /\ ~visible_row(g, 1).is_dirty
       /\ g.cur_y = 0

\* The colour the 256-colour table gives to code n: the ANSI-16 entry below 16,
\* the 6x6x6 cube up to 231, the grey ramp from 232
Palette16 ==
    << <<0, 0, 0>>, <<205, 0, 0>>, <<0, 205, 0>>, <<205, 205, 0>>,
       <<0, 0, 238>>, <<205, 0, 205>>, <<0, 205, 205>>, <<229, 229, 229>> >>

Bright(c) == <<Min(c[1] + 50, 255), Min(c[2] + 50, 255), Min(c[3] + 50, 255)>>

Colour256(n) ==
    IF n \in 0..7 THEN Palette16[n + 1]
    ELSE IF n \in 8..15 THEN Bright(Palette16[n - 7])
    ELSE IF n \in 16..231
    THEN <<51 * ((n - 16) \div 36), 51 * (((n - 16) % 36) \div 6), 51 * ((n - 16) % 6)>>
    ELSE <<(n - 232) * 10 + 8, (n - 232) * 10 + 8, (n - 232) * 10 + 8>>

\* C31: for every N in 0..255, SGR 38;5;N sets the foreground and SGR 48;5;N
\* the background to the colour of the 256-colour table (ANSI-16 entry, bright
\* entries 50 higher saturating at 255; cube 51*r, 51*g, 51*b; grey
\* (N-232)*10+8), changing nothing else, and every intermediate value of the
\* conversion fits in 0..255
C31_Colour256 ==
    \A n \in 0..255 :
        LET begun == feed_begin(term)
            f == csi_sgr(begun, <<<<38>>, <<5>>, <<n>>>>)
            b == csi_sgr(begun, <<<<48>>, <<5>>, <<n>>>>)
        IN /\ f = [begun EXCEPT !.attrs.fg = Colour256(n)]
           /\ b = [begun EXCEPT !.attrs.bg = Colour256(n)]
           /\ ansi_256_steps(n) \subseteq 0..255
           /\ \A ch \in 1..3 : Colour256(n)[ch] \in 0..255

\* a grey foreground from the top of the ramp on a cube background
C31_Witness ==
    /\ term.attrs.fg = <<238, 238, 238>>
    /\ term.attrs.bg = <<255, 255, 255>>


\* the state the documentation gives a grid after resize(cols, rows)
FreshGrid(g, cols, rows) ==
    /\ g.cols = cols /\ g.rows = rows
    /\ Len(g.lines) = rows
    /\ \A i \in 1..Len(g.lines) : IsBlankRow(g, g.lines[i])
    /\ scrollback_len(g) = 0
    /\ g.cur_x = 0 /\ g.cur_y = 0
    /\ g.scroll_top = 0 /\ g.scroll_bottom = rows - 1
    /\ g.scroll_bottom \in 0..rows
    /\ ~g.deferred_wrap
    /\ g.full_redraw_needed

Resizes(g, cols, rows) == ~(g.cols = cols /\ g.rows = rows)

\* the window Resized handler with a size that differs from both grids'
ResizedFresh(cols, rows) ==
    LET t == window_resized(term, cols, rows)
    IN (Resizes(term.normal_grid, cols, rows) /\ Resizes(term.alternate_grid, cols, rows))
       => /\ ~resize_overflows(term.normal_grid, cols, rows)
          /\ ~resize_overflows(term.alternate_grid, cols, rows)
          /\ FreshGrid(t.normal_grid, cols, rows)
          /\ FreshGrid(t.alternate_grid, cols, rows)
          /\ t.is_dirty
          /\ t = [term EXCEPT !.normal_grid = t.normal_grid,
                              !.alternate_grid = t.alternate_grid,
                              !.is_dirty = TRUE]

\* C32: a resize to dimensions different from the current ones leaves the
\* grid with exactly `rows` blank default-coloured rows of `cols` cells, no
\* scrollback, the cursor at (0,0), the margins (0, rows-1), deferred_wrap
\* false and full_redraw_needed true; the window Resized handler does so to
\* both grids and marks the terminal dirty
C32_Resize ==
    \A cols \in 0..MaxCols, rows \in 0..FrameRows + 1 : ResizedFresh(cols, rows)

\* the same for every size with at least one row
C32_ResizeToSomeRows ==
    \A cols \in 0..MaxCols, rows \in 1..FrameRows + 1 : ResizedFresh(cols, rows)


\* the instances display row y contributed to the last frame
FrameInstances(slice) == slice.bg \o slice.underline \o slice.undercurl

\* every instance of the slice lies on the screen row the slice was drawn for
OnOwnRow(slice) ==
    \A i \in 1..Len(FrameInstances(slice)) :
        FrameInstances(slice)[i].position[2] = slice.y * CellPx

\* the slices of the frame that is drawn in the current state
NextFrame ==
    prepare_decorations(renderer, term, selection_of(app), app.hovered_link_id).frame

\* C33: in every frame, every background, underline and undercurl instance
\* contributed by display row y carries the screen y-position y * cell height,
\* whether the row's instances were built anew or taken from the row-hash
\* cache
C33_InstancesOnOwnRow ==
    \A k \in 1..Len(NextFrame) : OnOwnRow(NextFrame[k])

\* rows whose instances are built anew are always placed on their own row
C33_FreshRowsOnOwnRow ==
    \A k \in 1..Len(NextFrame) :
        ~NextFrame[k].cache_hit => OnOwnRow(NextFrame[k])

\* the cells a drag of the mouse can select: pixels_to_grid keeps the column
\* below cols and the row below rows
GridCells(t) ==
    {<<c, r>> : c \in 0..(grid_size(t)[1] - 1), r \in 0..(grid_size(t)[2] - 1)}

InReadingOrder(a, b) == a[2] < b[2] \/ (a[2] = b[2] /\ a[1] <= b[1])

\* the cells between start and end, start first in reading order: columns
\* [start_col, end_col) of a single row; otherwise [start_col, cols) of the
\* first row, every column of the rows between and [0, end_col) of the last
SelectedCells(t, a, b) ==
    LET start == IF InReadingOrder(a, b) THEN a ELSE b
        end == IF InReadingOrder(a, b) THEN b ELSE a
        cols == active_grid(t).cols
    IN {<<c, r>> \in (0..MaxCols) \X (0..MaxRows) :
           /\ start[2] <= r /\ r <= end[2]
           /\ (IF r = start[2] THEN start[1] ELSE 0) <= c
           /\ c < (IF r = end[2] THEN end[1] ELSE cols)}

\* the cells the selection overlay paints
OverlayCells(t, a, b) ==
    LET bgs == prepare_selection_bg(Some(<<a, b>>), t)
    IN {<<bgs[i].position[1] \div CellPx, bgs[i].position[2] \div CellPx>> : i \in 1..Len(bgs)}

\* the characters of the cells of display row r that are in the set, in
\* column order from column c on
RECURSIVE CharsIn(_, _, _, _)
CharsIn(t, cells, r, c) ==
    IF c >= active_grid(t).cols THEN <<>>
    ELSE (IF <<c, r>> \in cells
          THEN <<At(get_display_row(active_grid(t), r, t.scroll_offset)[1].cells, c).ch>>
          ELSE <<>>) \o CharsIn(t, cells, r, c + 1)

\* the text of a set of cells from row r to row last: the rows joined by
\* newlines, every row but the last without its trailing spaces
RECURSIVE TextOf(_, _, _, _, _)
TextOf(t, cells, first, last, r) ==
    IF r > last THEN <<>>
    ELSE (IF r > first THEN <<"\n">> ELSE <<>>)
            \o (IF r < last THEN trim_end(CharsIn(t, cells, r, 0)) ELSE CharsIn(t, cells, r, 0))
            \o TextOf(t, cells, first, last, r + 1)

\* the overlay and the copied text of the selection from a to b cover
\* exactly SelectedCells
SelectionCovers(t, a, b) ==
    LET cells == SelectedCells(t, a, b)
        first == Min(a[2], b[2])
        last == Max(a[2], b[2])
        text == get_selected_text([App_new EXCEPT !.selection_start = Some(a),
                                                  !.selection_end = Some(b)], t)
        expected == TextOf(t, cells, first, last, first)
    IN /\ OverlayCells(t, a, b) = cells
       /\ \A cell \in cells :
              get_display_row(active_grid(t), cell[2], t.scroll_offset) # None
       /\ text = IF expected = <<>> THEN None ELSE Some(expected)
       /\ a = b => (cells = {} /\ text = None)

\* C34: for any selection (start, end), put in reading order, the selection
\* overlay and get_selected_text cover exactly columns [start_col, end_col)
\* on a single row, and otherwise [start_col, cols) on the first row, [0, cols)
\* on each middle row and [0, end_col) on the last row; a selection with
\* start = end covers no cell
C34_SelectedCells ==
    \A a \in GridCells(term), b \in GridCells(term) : SelectionCovers(term, a, b)

\* the same on a screen that holds all of its rows
C34_PopulatedSelectedCells ==
    Populated(active_grid(term)) =>
        \A a \in GridCells(term), b \in GridCells(term) : SelectionCovers(term, a, b)


\* CSI n X on the terminal t: the cells [cur_x, cur_x + min(n, cols - cur_x))
\* of the cursor row become `blank`, nothing else of the screen changes but
\* the row's dirty flag, and the cursor stays
EchWrites(t, n, blank) ==
    LET begun == feed_begin(t)
        g == active_grid(begun)
        g2 == active_grid(csi_dispatch(begun, <<n>>, "", "X"))
        m == Min(n, g.cols - g.cur_x)
    IN /\ has_visible_row(g2, g.cur_y)
       /\ visible_row(g2, g.cur_y).is_dirty
       /\ visible_row(g2, g.cur_y).cells =
              [i \in 1..g.cols |->
                  IF g.cur_x <= i - 1 /\ i - 1 < g.cur_x + m
                  THEN blank ELSE visible_row(g, g.cur_y).cells[i]]
       /\ csi_dispatch(begun, <<n>>, "", "X") =
              with_grid(begun, set_visible_row(g, g.cur_y, visible_row(g2, g.cur_y)))

\* C35: ECH (CSI n X) overwrites the min(n, cols - cur_x) cells from cur_x on
\* the cursor row with the blank cell (space, default colours, no flags, no
\* link) whatever the current SGR attributes and open hyperlink are, leaves
\* every other cell and the cursor where they were, and marks the row dirty
\* (on a screen that holds its rows)
C35_EchBlanks ==
    Populated(active_grid(term)) =>
        \A n \in 1..MaxCount : EchWrites(term, n, BlankCellOf(active_grid(term)))

\* what ECH does write on a screen that holds its rows: a space without flags
\* in the current colours and with the current hyperlink
C35_EchWritesCurrent ==
    Populated(active_grid(term)) =>
        \A n \in 1..MaxCount :
            EchWrites(term, n, [ch |-> " ", fg |-> term.attrs.fg, bg |-> term.attrs.bg,
                                flags |-> NoFlags, link_id |-> term.current_link_id])


\* clear_all over the whole screen: every viewport row blank, the cursor home
ClearedAll(g) ==
    LET g2 == clear_all(g)
    IN /\ \A y \in 0..(g.rows - 1) : RowCells(g2, y) = BlankCells(g)
       /\ g2.cur_x = 0 /\ g2.cur_y = 0

\* clear_from_cursor over the whole screen: blank from the cursor cell through
\* the last cell of row rows-1, the cells before the cursor kept
ClearedFromCursor(g) ==
    LET g2 == clear_from_cursor(g)
    IN \A y \in 0..(g.rows - 1) :
           RowCells(g2, y) =
               IF y < g.cur_y THEN RowCells(g, y)
               ELSE IF y > g.cur_y THEN BlankCells(g)
               ELSE [i \in 1..g.cols |->
                        IF i - 1 >= g.cur_x THEN BlankCellOf(g) ELSE RowCells(g, y)[i]]

\* C36: erase-in-display extents are those of the whole visible screen, not
\* of the scroll region: clear_all blanks every viewport row 0..rows-1 and
\* leaves the cursor at (0,0), clear_from_cursor blanks from the cursor cell
\* through the last cell of row rows-1, for every setting of the margins and
\* every cursor position (on a grid that holds its rows)
C36_EraseWholeScreen ==
    (Populated(grid) /\ grid.cur_y < grid.rows) =>
        ClearedAll(grid) /\ ClearedFromCursor(grid)

\* the same while the scroll region is the whole screen
C36_EraseWithoutMargins ==
    (Populated(grid) /\ grid.cur_y < grid.rows /\ WholeScreenRegion(grid)) =>
        ClearedAll(grid) /\ ClearedFromCursor(grid)


\* g2 is g with the rows of the scroll region moved up by one, a blank row at
\* the bottom of the region and every row outside the region as it was
RegionScrolledByOne(g, g2) ==
    /\ Len(g2.lines) >= g2.rows
    /\ \A y \in 0..(g.rows - 1) :
           RowCells(g2, y) =
               IF y < g.scroll_top \/ y > g.scroll_bottom THEN RowCells(g, y)
               ELSE IF y < g.scroll_bottom THEN RowCells(g, y + 1)
               ELSE BlankCells(g)

\* the three cases of line_feed
LineFed(g) ==
    LET g2 == line_feed(g)
    IN /\ g2.cur_x = g.cur_x
       /\ IF g.deferred_wrap
          THEN g2 = [g EXCEPT !.deferred_wrap = FALSE]
          ELSE IF g.cur_y = g.scroll_bottom
          THEN RegionScrolledByOne(g, g2) /\ g2.cur_y = g.cur_y
          ELSE g2 = [g EXCEPT !.cur_y = g.cur_y + 1]

\* C37: line_feed with deferred_wrap clear scrolls the scroll region up by
\* exactly one row and keeps cur_y if cur_y = scroll_bottom, and otherwise
\* adds exactly 1 to cur_y and changes no row; with deferred_wrap set it only
\* clears the latch; cur_x is unchanged in all three cases (on a grid that
\* holds its rows)
C37_LineFeed == Populated(grid) => LineFed(grid)

\* the same while the scroll region reaches the last row of the screen
C37_LineFeedToLastRow ==
    (Populated(grid) /\ grid.scroll_bottom = grid.rows - 1) => LineFed(grid)


OffsetInScrollback(t) == t.scroll_offset <= scrollback_len(t.normal_grid)

\* C38: in every reachable state of the terminal scroll_offset is at most
\* normal_grid.scrollback_len(), after any interleaving of feeds, viewport
\* scrolls and window resizes
C38_OffsetBound == OffsetInScrollback(term)

\* every step but a window resize keeps the bound
C38_KeptButByResize ==
    [][(OffsetInScrollback(term) /\ ~Resized) => OffsetInScrollback(term')]_vars


\* cur_y of the active screen after CSI params final_byte
CurYAfter(t, params, final_byte) ==
    active_grid(csi_dispatch(feed_begin(t), params, "", final_byte)).cur_y

UpNeverDown(t) ==
    \A params \in CountParams :
        /\ CurYAfter(t, params, "A") <= active_grid(t).cur_y
        /\ CurYAfter(t, params, "B") >= active_grid(t).cur_y

\* C39: CUU never increases cur_y and CUD never decreases cur_y, for every
\* cursor position and every scroll region, the cursor above scroll_top or
\* below scroll_bottom included
C39_UpNeverDown == UpNeverDown(term)

\* the same with the cursor between the margins
C39_UpNeverDownInRegion ==
    (active_grid(term).scroll_top <= active_grid(term).cur_y
        /\ active_grid(term).cur_y <= active_grid(term).scroll_bottom)
    => UpNeverDown(term)

\* C40: a UI handler never calls lock on the terminal mutex while it holds a
\* guard of that mutex, and so every handler entered returns: RedrawRequested,
\* the left button pressed and released, CursorMoved, MouseWheel, Resized and
\* the copy shortcut cannot deadlock on the mutex by themselves.
C40_NoSelfDeadlock ==
    /\ [](next_step = "lock" => ui.guards = 0)
    /\ [](ui.handler = "idle" => ui.guards = 0)
    /\ (ui.handler # "idle") ~> (ui.handler = "idle")

\* RedrawRequested holds its second guard, for render, after the first was dropped
C40_SecondGuard ==
    /\ ui.handler = "RedrawRequested"
    /\ ui.rest = <<"render", "unlock">>
    /\ ui.guards = 1

====
